---- MODULE Spec2Model ----
(***************************************************************************)
(* Lobby runtime of bsc-multiplayer-backend: the LobbyManager (create,     *)
(* join, shutdown, close-queue drainer) and the Lobby (per-session read     *)
(* loop, disconnect handling, close, shutdown).                             *)
(*                                                                          *)
(* Every goroutine is a process with a program counter; one action is one   *)
(* operation of the Go code on shared state or on the network: a load, a    *)
(* store, a lock, a channel operation, a write to a transport.  What a      *)
(* goroutine computes on its own before or after it belongs to the step.    *)
(* An unrecovered panic in any goroutine ends the Go process: crashed       *)
(* becomes TRUE and nothing runs afterwards.                                *)
(***************************************************************************)
EXTENDS Integers, Sequences, FiniteSets, TLC

\* ------------------------------------------------------------------ bounds
\* number of POST /create-lobby requests in a run
NumCreators == 2
\* number of /connect requests (each becomes at most one client session)
NumSessions == 2

Creators == 1..NumCreators
Sessions == 1..NumSessions

\* ------------------------------------------------------- inputs of the runs
\* ownerID and colonyID query parameters of /create-lobby
OwnerIDs == {7, 8}
ColonyIDs == {42}
\* clientID query parameter of /connect: 7 owns the lobby of the sessions,
\* 8 is a guest
ClientIDs == {7, 8}
\* colonyID and ownerID query parameters of /connect
ConnectColonyIDs == {42}
ConnectOwnerIDs == {7}
\* the same parameters of the /connect requests of a client whose colony
\* the server may not know
DesyncColonyIDs == {42, 43}
DesyncOwnerIDs == {7, 9}
\* the locationID carried by the PLAYER_MOVE frames of the runs (the
\* second element of the payload)
LocationIDs == {5}
\* the minigameID and difficultyID carried by the
\* DIFFICULTY_SELECT_FOR_MINIGAME frames of the runs
MinigameIDs == {3}
DifficultyIDs == {2}

\* ------------------------------------------------------ program constants
\* make(chan *Lobby, 10)
CloseQueueCap == 10
\* lm.nextLobbyID.Store(1)
FirstNextLobbyID == 1

MESSAGE_ENCODING_BINARY == "binary"
MESSAGE_ENCODING_BASE16 == "base16"
MESSAGE_ENCODING_BASE64 == "base64"
\* the encoding parameter of /create-lobby as the handler reads it
UserSetEncodings == {MESSAGE_ENCODING_BINARY, MESSAGE_ENCODING_BASE16}
\* lm.configuration.Encoding of the runs
ConfiguredEncoding == MESSAGE_ENCODING_BASE64

JoinErrorNotFound == 0
JoinErrorClosing == 1
JoinErrorAlreadyInLobby == 2
\* the value of JoinErrorSerializationFailure is not in the sources at
\* hand; 3 stands for it
JoinErrorSerializationFailure == 3

ORIGIN_TYPE_SERVER == "server"
ORIGIN_TYPE_OWNER == "owner"
ORIGIN_TYPE_GUEST == "guest"

SERVER_ONLY == [server |-> TRUE, owner |-> FALSE, guest |-> FALSE]
OWNER_ONLY == [server |-> FALSE, owner |-> TRUE, guest |-> FALSE]
OWNER_AND_GUESTS == [server |-> FALSE, owner |-> TRUE, guest |-> TRUE]

ASTEROID_SPAWN_EVENT == [ID |-> 3000, SendPermissions |-> SERVER_ONLY]
\* the ID of PLAYER_MOVE is not in the sources at hand; 0 stands for it
PLAYER_MOVE_EVENT == [ID |-> 0, SendPermissions |-> OWNER_AND_GUESTS]

\* the ID of DIFFICULTY_SELECT_FOR_MINIGAME is not in the sources at hand
\* either; 1 stands for it
DIFFICULTY_SELECT_FOR_MINIGAME_EVENT == [ID |-> 1, SendPermissions |-> OWNER_ONLY]

\* the event specifications the frames of the runs name
InboundSpecs == {ASTEROID_SPAWN_EVENT, PLAYER_MOVE_EVENT}

\* the registry of the runs
RegisteredSpecs == InboundSpecs \cup {DIFFICULTY_SELECT_FOR_MINIGAME_EVENT}

\* ----------------------------------------------------------------- helpers
RangeOf(f) == {f[x] : x \in DOMAIN f}
MapPut(f, k, v) == [x \in (DOMAIN f) \cup {k} |-> IF x = k THEN v ELSE f[x]]
MapDel(f, k) == [x \in (DOMAIN f) \ {k} |-> f[x]]
EmptyMap == [x \in {} |-> 0]

\* messages the server writes to a transport
Message(id, arg) == [id |-> id, arg |-> arg]
PLAYER_JOINED(c) == Message("PLAYER_JOINED", c)
PLAYER_LEFT(c) == Message("PLAYER_LEFT", c)
LOBBY_CLOSING == Message("LOBBY_CLOSING", 0)
SERVER_CLOSING == Message("SERVER_CLOSING", 0)
DEBUG(code) == Message("DEBUG", code)
\* the DEBUG 400 of line 132 and the DEBUG 500 of line 181, by their texts
DEBUG_DECODING ==
  [id |-> "DEBUG", arg |-> 400, description |-> "Error decoding message"]
DEBUG_PROCESSING ==
  [id |-> "DEBUG", arg |-> 500, description |-> "Error processing message"]

\* the frame types ReadMessage returns
TextMessage == "text"
BinaryMessage == "binary"

NoMsg == [senderID |-> 0, spec |-> [ID |-> 0, SendPermissions |-> SERVER_ONLY],
          elements |-> <<0, 0>>, size |-> 0, dataType |-> BinaryMessage,
          decodeErr |-> FALSE]

\* const MESSAGE_HEADER_SIZE: senderID and message ID, 4 bytes each
MESSAGE_HEADER_SIZE == 8

\* ------------------------------------------------------- ComputeStructure
\* most elements of a structure in the ComputeStructure calls of the runs
MaxElements == 3

\* reflect.Kind values in the structures of the runs: fixed sizes 1 and 4,
\* a string, the platform-sized int, and two kinds that are no scalars
KindsOfRuns == {"Uint8", "Uint32", "Float32", "String", "Int", "Slice"}

\* isValidKind: nil for the kinds of the list, an error for all others
isValidKind(kind) ==
  kind \in {"Bool", "Int", "Int8", "Int16", "Int32", "Int64", "Uint",
            "Uint8", "Uint16", "Uint32", "Uint64", "Uintptr", "Float32",
            "Float64", "Complex64", "Complex128", "String"}

\* no kind counts as variable-length
isKindOfVariableSizeNever(kind) == FALSE

isKindOfVariableSize(kind) ==
  kind \in {"String", "Slice", "Array", "Interface", "Struct"}

sizeOfSerializedKind(kind) ==
  CASE kind = "Bool" -> 1
    [] kind \in {"Int8", "Uint8"} -> 1
    [] kind \in {"Int16", "Uint16"} -> 2
    [] kind \in {"Int32", "Uint32", "Float32"} -> 4
    [] kind \in {"Int64", "Uint64", "Float64", "Complex64"} -> 8
    [] kind = "Complex128" -> 16
    [] kind \in {"String", "Slice", "Array"} -> 0
    [] OTHER -> 0

\* the loop of ComputeStructure from element `index` on; the flag
\* hasVariableSizeElement is passed on as it is, no line of the loop
\* assigns it
RECURSIVE ComputeStructureFrom(_, _, _, _, _, _)
ComputeStructureFrom(shortDescription, index, offset, hasVariableSizeElement, minimumTotalSize, computedStructure) ==
  IF index > Len(shortDescription)
  THEN [panic |-> FALSE, minimumTotalSize |-> minimumTotalSize,
        computedStructure |-> computedStructure]
  ELSE LET element == shortDescription[index]
           isVariable == isKindOfVariableSize(element)
           sizeOfElement == sizeOfSerializedKind(element)
           failed == [panic |-> TRUE, minimumTotalSize |-> 0,
                      computedStructure |-> << >>]
       IN IF ~isValidKind(element) THEN failed
          ELSE IF isVariable /\ hasVariableSizeElement THEN failed
          ELSE IF isVariable /\ index # Len(shortDescription) THEN failed
          ELSE ComputeStructureFrom(
                 shortDescription, index + 1, offset + sizeOfElement,
                 hasVariableSizeElement, minimumTotalSize + sizeOfElement,
                 Append(computedStructure,
                        [ByteSize |-> sizeOfElement, Offset |-> offset,
                         Kind |-> element]))

\* ComputeStructure(messageName, shortDescription): offset starts at the
\* header size, minimumTotalSize at 0
ComputeStructure(shortDescription) ==
  ComputeStructureFrom(shortDescription, 1, MESSAGE_HEADER_SIZE, FALSE, 0,
                       << >>)

\* the structure of ASTEROID_SPAWN_EVENT
ASTEROID_SPAWN_STRUCTURE ==
  <<"Uint32", "Float32", "Float32", "Uint8", "Uint8", "Uint8", "String">>

\* the structures handed to ComputeStructure in the runs: every sequence
\* of at most MaxElements kinds, and the one of ASTEROID_SPAWN
StructuresOfRuns ==
  UNION {[1..n -> KindsOfRuns] : n \in 0..MaxElements}
    \cup {ASTEROID_SPAWN_STRUCTURE}

\* ------------------------------------------------------------- byte order
\* largest uint32 that goes through the codecs in the runs
MaxWireValue == 40

\* binary.BigEndian.PutUint32 and Uint32
BigEndianPutUint32(v) ==
  <<(v \div 16777216) % 256, (v \div 65536) % 256, (v \div 256) % 256,
    v % 256>>
BigEndianUint32(b) == b[1] * 16777216 + b[2] * 65536 + b[3] * 256 + b[4]

\* binary.LittleEndian.PutUint32 and Uint32
LittleEndianPutUint32(v) ==
  <<v % 256, (v \div 256) % 256, (v \div 65536) % 256,
    (v \div 16777216) % 256>>
LittleEndianUint32(b) == b[1] + b[2] * 256 + b[3] * 65536 + b[4] * 16777216

\* the two versions of the client file in the sources: client.go and
\* part_002.  A build has one of them.
ClientBuilds == {"client.go", "part_002"}

\* NewClient: binary.<order>.PutUint32(userIDBytes, id)
NewClientIDBytes(build, id) ==
  IF build = "client.go" THEN BigEndianPutUint32(id)
  ELSE LittleEndianPutUint32(id)

\* UpdateAny: binary.<order>.Uint32(subSlice)
UpdateAnyUint32(build, subSlice) ==
  IF build = "client.go" THEN BigEndianUint32(subSlice)
  ELSE LittleEndianUint32(subSlice)

\* updateTrackedActivity: binary.BigEndian.Uint32(minigameIDBytes)
TrackedActivityUint32(bytes) == BigEndianUint32(bytes)

\* ------------------------------------------------------- the encodings
\* longest buffer a client encodes in the runs
MaxBufferLen == 3

\* the byte values in the buffers of the runs
BufferBytes == {0, 105, 255}

\* every buffer of at most MaxBufferLen bytes
BuffersOfRuns == UNION {[1..n -> BufferBytes] : n \in 0..MaxBufferLen}

\* base16: the ASCII code of the lower-case hex digit of a nibble
HexDigit(nibble) == IF nibble < 10 THEN 48 + nibble ELSE 87 + nibble

\* base16 of a buffer: two hex digits for each byte
RECURSIVE EncodeBase16(_)
EncodeBase16(b) ==
  IF b = << >> THEN << >>
  ELSE <<HexDigit(Head(b) \div 16), HexDigit(Head(b) % 16)>>
         \o EncodeBase16(Tail(b))

\* base64: the ASCII code of a 6-bit value in the standard alphabet
Base64Digit(v) ==
  IF v < 26 THEN 65 + v
  ELSE IF v < 52 THEN 97 + (v - 26)
  ELSE IF v < 62 THEN 48 + (v - 52)
  ELSE IF v = 62 THEN 43 ELSE 47

\* base64 of a buffer: four digits for each three bytes, the last group
\* padded with '='
RECURSIVE EncodeBase64(_)
EncodeBase64(b) ==
  IF b = << >> THEN << >>
  ELSE IF Len(b) = 1
  THEN <<Base64Digit(b[1] \div 4), Base64Digit((b[1] % 4) * 16), 61, 61>>
  ELSE IF Len(b) = 2
  THEN <<Base64Digit(b[1] \div 4),
         Base64Digit((b[1] % 4) * 16 + b[2] \div 16),
         Base64Digit((b[2] % 16) * 4), 61>>
  ELSE <<Base64Digit(b[1] \div 4),
         Base64Digit((b[1] % 4) * 16 + b[2] \div 16),
         Base64Digit((b[2] % 16) * 4 + b[3] \div 64),
         Base64Digit(b[3] % 64)>>
         \o EncodeBase64(SubSeq(b, 4, Len(b)))

\* Encode(bytes, encoding) on the send path: the buffer itself in a binary
\* frame, or its base16 or base64 text in a text frame
Encode(bytes, encoding) ==
  IF encoding = MESSAGE_ENCODING_BASE16
  THEN [dataType |-> TextMessage, data |-> EncodeBase16(bytes)]
  ELSE IF encoding = MESSAGE_ENCODING_BASE64
  THEN [dataType |-> TextMessage, data |-> EncodeBase64(bytes)]
  ELSE [dataType |-> BinaryMessage, data |-> bytes]

\* encoding/hex: the value of a hex digit, 16 for every other character
fromHexChar(c) ==
  IF c \in 48..57 THEN c - 48
  ELSE IF c \in 97..102 THEN c - 87
  ELSE IF c \in 65..70 THEN c - 55
  ELSE 16

\* the loop of hex.Decode from character j on; dst holds the bytes decoded
\* so far and is what comes back with the error
RECURSIVE HexDecodeFrom(_, _, _)
HexDecodeFrom(src, j, dst) ==
  IF j + 1 > Len(src)
  THEN [bytes |-> dst, err |-> (Len(src) % 2 = 1)]
  ELSE IF fromHexChar(src[j]) > 15 \/ fromHexChar(src[j + 1]) > 15
  THEN [bytes |-> dst, err |-> TRUE]
  ELSE HexDecodeFrom(src, j + 2,
                     Append(dst, fromHexChar(src[j]) * 16
                                   + fromHexChar(src[j + 1])))

\* hex.DecodeString
HexDecodeString(src) == HexDecodeFrom(src, 1, << >>)

\* lines 124-145 of handleConnection for a frame of the lobby's encoding:
\* a text frame is hex-decoded whatever the encoding of the lobby is, a
\* decoding error is answered with DEBUG 400 and the bytes decoded so far
\* go on to ExtractClientIDAndMessageID; a binary frame goes on as it is
ReceiveFrame(frame) ==
  IF frame.dataType = TextMessage
  THEN LET decoded == HexDecodeString(frame.data)
       IN [msg |-> decoded.bytes, decodeErr |-> decoded.err]
  ELSE [msg |-> frame.data, decodeErr |-> FALSE]

\* what the message ID 999999 of a header stands for: no entry of the
\* registry has this ID
UNKNOWN_EVENT == [ID |-> 999999, SendPermissions |-> SERVER_ONLY]

\* expectedMinSize of a specification: the header and the fixed-size
\* elements (ASTEROID_SPAWN: uint32, float32, float32, uint8, uint8, uint8
\* and a string; PLAYER_MOVE: two uint32)
ExpectedMinSize(spec) ==
  IF spec.ID = ASTEROID_SPAWN_EVENT.ID
  THEN MESSAGE_HEADER_SIZE + 4 + 4 + 4 + 1 + 1 + 1
  ELSE MESSAGE_HEADER_SIZE + 4 + 4

\* the lengths in bytes of the frames of the runs: less than a header, a
\* whole PLAYER_MOVE, a whole ASTEROID_SPAWN with an empty string
FrameSizes == {4, ExpectedMinSize(PLAYER_MOVE_EVENT),
               ExpectedMinSize(ASTEROID_SPAWN_EVENT)}

\* the binary frames of the runs: whole or cut short, none with bytes
\* after the fixed-size elements; elements holds the values of the first
\* two uint32 of the payload, for PLAYER_MOVE the player ID and the
\* location ID; size is the number of bytes that reach
\* ExtractClientIDAndMessageID
Frames ==
  {m \in [senderID : ClientIDs, spec : InboundSpecs \cup {UNKNOWN_EVENT},
          elements : ClientIDs \X LocationIDs, size : FrameSizes,
          dataType : {BinaryMessage}, decodeErr : {FALSE}] :
     m.size <= ExpectedMinSize(m.spec) /\ m.elements[1] = m.senderID}

\* whole PLAYER_MOVE frames in base16: text frames that hex.DecodeString
\* decodes
DecodableFrames ==
  {m \in [senderID : ClientIDs, spec : {PLAYER_MOVE_EVENT},
          elements : ClientIDs \X LocationIDs,
          size : {ExpectedMinSize(PLAYER_MOVE_EVENT)},
          dataType : {TextMessage}, decodeErr : {FALSE}] :
     m.elements[1] = m.senderID}

\* text frames that hex.DecodeString fails on, the hex digits of `size`
\* bytes and one more character: the fields are those of the bytes it had
\* decoded when it met the error, less than a header or a whole
\* PLAYER_MOVE
UndecodableFrames ==
  {m \in [senderID : ClientIDs, spec : {PLAYER_MOVE_EVENT},
          elements : ClientIDs \X LocationIDs,
          size : {4, ExpectedMinSize(PLAYER_MOVE_EVENT)},
          dataType : {TextMessage}, decodeErr : {TRUE}] :
     m.elements[1] = m.senderID}

\* whole DIFFICULTY_SELECT_FOR_MINIGAME frames, binary or in base16
ActivityFrames ==
  [senderID : ClientIDs, spec : {DIFFICULTY_SELECT_FOR_MINIGAME_EVENT},
   elements : MinigameIDs \X DifficultyIDs,
   size : {ExpectedMinSize(DIFFICULTY_SELECT_FOR_MINIGAME_EVENT)},
   dataType : {BinaryMessage, TextMessage}, decodeErr : {FALSE}]

\* the error of ExtractClientIDAndMessageID; "" is nil
ExtractClientIDAndMessageID(m) ==
  IF m.size < MESSAGE_HEADER_SIZE THEN "MalformedHeader"
  ELSE IF m.spec.ID \notin {e.ID : e \in RegisteredSpecs} THEN "UnknownMessage"
  ELSE IF m.size < ExpectedMinSize(m.spec) THEN "PayloadTooShort"
  ELSE ""

\* the frames that ExtractClientIDAndMessageID lets through
WellFormedFrames == {m \in Frames : ExtractClientIDAndMessageID(m) = ""}

\* the payload ExtractClientIDAndMessageID hands on as `remainder`: the
\* bytes of the frame after the header, here the two uint32 of a whole
\* PLAYER_MOVE or DIFFICULTY_SELECT_FOR_MINIGAME frame
Remainder(m) ==
  BigEndianPutUint32(m.elements[1]) \o BigEndianPutUint32(m.elements[2])

\* the structures of PLAYER_MOVE (UpdateAny takes element 1 for the
\* location ID) and of DIFFICULTY_SELECT_FOR_MINIGAME (minigame ID,
\* difficulty ID)
PLAYER_MOVE_STRUCTURE == <<"Uint32", "Uint32">>
DIFFICULTY_SELECT_FOR_MINIGAME_STRUCTURE == <<"Uint32", "Uint32">>

\* the bytes of a whole frame of two uint32: the header (sender ID and
\* message ID) and the payload
FrameBytes(m) ==
  BigEndianPutUint32(m.senderID) \o BigEndianPutUint32(m.spec.ID)
    \o Remainder(m)

\* the capacity of the buffer ReadMessage returns a frame in (io.ReadAll
\* starts with 512 bytes and fills what the frame needs)
ReadAllCapacity == 512

\* hex.DecodeString decodes either in place (it converts the text to
\* bytes and decodes into them) or into a buffer of len(text)/2 bytes of
\* its own, depending on the version of encoding/hex in the build; a
\* binary frame is not decoded
DecodesInPlace(m) == IF m.dataType = TextMessage THEN BOOLEAN ELSE {FALSE}

\* what lies in the buffer of a frame behind the last byte that reaches
\* ExtractClientIDAndMessageID, up to the capacity of the buffer.  A
\* binary frame: the zero bytes of the spare capacity of the read buffer.
\* A text frame decoded in place: the rest of the text stays behind the
\* decoded bytes (with the character the decoding failed on, 'z').  A
\* text frame decoded into a buffer of its own: nothing, the buffer has no
\* spare capacity.
PastTheEnd(m, inPlace) ==
  IF m.dataType = TextMessage
  THEN LET text == EncodeBase16(SubSeq(FrameBytes(m), 1, m.size))
           rest == SubSeq(text, m.size + 1, Len(text))
       IN IF inPlace
          THEN rest \o (IF m.decodeErr THEN <<122>> ELSE << >>)
          ELSE << >>
  ELSE [i \in 1..(ReadAllCapacity - m.size) |-> 0]

\* whether the Go slice expression b[low:high] stays within the capacity
\* of b; if not, it panics
WithinCapacity(b, high, beyond) == high <= Len(b) + Len(beyond)

\* the Go slice expression b[low:high] on a slice whose capacity reaches
\* `high`: the bytes behind len(b) come from the buffer
SubSlice(b, low, high, beyond) ==
  [i \in 1..(high - low) |->
     IF low + i <= Len(b) THEN b[low + i] ELSE beyond[low + i - Len(b)]]

\* the bytes of element `index` (from 0) of a structure in `remainder`,
\* as UpdateAny and updateTrackedActivity take them: at the Offset that
\* ComputeStructure gave the element
ElementBytes(structure, index, remainder, beyond) ==
  LET element == ComputeStructure(structure).computedStructure[index + 1]
  IN SubSlice(remainder, element.Offset, element.Offset + element.ByteSize,
              beyond)

\* whether the slice expression for element `index` panics
ElementPanics(structure, index, remainder, beyond) ==
  LET element == ComputeStructure(structure).computedStructure[index + 1]
  IN ~WithinCapacity(remainder, element.Offset + element.ByteSize, beyond)

\* what spec.Handler returns: nil, an UnresponsiveClientsError, any other
\* error
HandlerResults == {"nil", "UnresponsiveClientsError", "error"}

\* processClosures waits for the next lobby of the close queue
Receiving == [pc |-> "receive", lobby |-> 0, pending |-> {}]

\* no ComputeStructure call, no uint32 and no buffer under way
NoBuild == [pc |-> "none"]
NoWire == [pc |-> "none"]
NoCodec == [pc |-> "none"]

VARIABLES
  Lobbies,            \* LobbyManager.Lobbies: LobbyID -> lobby object
  lobbies,            \* the Lobby objects, in the order NewLobby made them
  nextLobbyID,        \* LobbyManager.nextLobbyID
  acceptsNewLobbies,  \* LobbyManager.acceptsNewLobbies
  CloseQueue,         \* LobbyManager.CloseQueue: buffered lobby objects
  queueClosed,        \* close(lm.CloseQueue) has run
  drainerDone,        \* processClosures has returned
  drainer,            \* processClosures: where it is, the lobby it holds
  crashed,            \* a goroutine panicked: the process is gone
  creator,            \* the CreateLobby calls
  shut,               \* the ShutdownLobbyManager call
  sess,               \* the /connect requests and their read loops
  conn,               \* server side of each transport: none, open, closed
  sent,               \* messages the server wrote to each transport
  State,              \* DisclosedClientState.LastKnownPosition per client
  registryBuild,      \* one ComputeStructure call of the registry build
  wire,               \* a uint32 on its way through the byte-order codecs
  codec               \* a buffer on its way from a client to header parsing

vars == <<Lobbies, lobbies, nextLobbyID, acceptsNewLobbies, CloseQueue,
          queueClosed, drainerDone, drainer, crashed, creator, shut, sess,
          conn, sent, State, registryBuild, wire, codec>>

mgrVars == <<Lobbies, lobbies, nextLobbyID, acceptsNewLobbies>>
chanVars == <<CloseQueue, queueClosed, drainerDone, drainer>>
sessVars == <<sess, conn, sent, State>>
\* what runs before any request is served
offlineVars == <<registryBuild, wire, codec>>

\* colonyID, ownerID: the parameters of the request; status: the HTTP
\* status the request is answered with before the upgrade (0: none);
\* closeColony: the MainBackend.CloseColony calls the request has started;
\* loaded: the client that lobby.Clients.Load gave the call under way;
\* inPlace: whether hex.DecodeString decoded the frame under way in place;
\* query: the lobbyID and clientID parameters as the request carried them
NewSession == [pc |-> "idle", lobbyID |-> 0, clientID |-> 0, lobby |-> 0,
               Type |-> ORIGIN_TYPE_GUEST, inCloseHandler |-> FALSE,
               msg |-> NoMsg, loaded |-> 0, inPlace |-> FALSE, err |-> {},
               colonyID |-> 0,
               ownerID |-> 0,
               status |-> 0, closeColony |-> << >>,
               query |-> [lobbyID |-> << >>, clientID |-> << >>]]

Init ==
  /\ Lobbies = EmptyMap
  /\ lobbies = << >>
  /\ nextLobbyID = FirstNextLobbyID
  /\ acceptsNewLobbies = TRUE
  /\ CloseQueue = << >>
  /\ queueClosed = FALSE
  /\ drainerDone = FALSE
  /\ drainer = Receiving
  /\ crashed = FALSE
  /\ creator = [p \in Creators |->
                 [pc |-> "idle", colonyID |-> 0, ownerID |-> 0,
                  encoding |-> MESSAGE_ENCODING_BINARY,
                  lobby |-> 0, result |-> 0]]
  /\ shut = [pc |-> "idle", present |-> EmptyMap, visited |-> {}, lobby |-> 0]
  /\ sess = [s \in Sessions |-> NewSession]
  /\ conn = [s \in Sessions |-> "none"]
  /\ sent = [s \in Sessions |-> {}]
  /\ State = [s \in Sessions |-> 0]
  /\ registryBuild = NoBuild
  /\ wire = NoWire
  /\ codec = NoCodec

\* ------------------------------------------------------------ the manager
\* a load in place of the atomic add: the counter never moves
AtomicAddLost(v) == v

\* lm.nextLobbyID.Add(1): the new value, which is also the value returned
\* (the runs allocate NumCreators IDs at most, far from the uint32 wrap)
AtomicAdd(v) == v + 1

\* NewActivityTracker
NewActivityTracker ==
  [currentActivityID |-> 0, currentDifficultyID |-> 0, phase |-> "Idle"]

NewLobby(id, ownerID, colonyID, encoding) ==
  [ID |-> id, OwnerID |-> ownerID, ColonyID |-> colonyID,
   Encoding |-> encoding, Closing |-> FALSE, Clients |-> EmptyMap,
   Sync |-> 0, activityTracker |-> NewActivityTracker, shutdowns |-> 0]

\* CreateLobby, lines 103-107: a request for binary gets the encoding of
\* the configuration
EncodingToUse(userSetEncoding) ==
  IF userSetEncoding = MESSAGE_ENCODING_BINARY
  THEN ConfiguredEncoding ELSE userSetEncoding

\* CreateLobby, line 84: the acceptsNewLobbies check.  The requests are
\* numbered in the order in which they reach this line.
CreateCheck(p, ownerID, colonyID, userSetEncoding) ==
  /\ ~crashed
  /\ creator[p].pc = "idle"
  /\ \A q \in Creators : q < p => creator[q].pc # "idle"
  /\ creator' = [creator EXCEPT ![p] =
       [@ EXCEPT !.pc = IF acceptsNewLobbies THEN "range"
                        ELSE "notAccepting",
                 !.ownerID = ownerID, !.colonyID = colonyID,
                 !.encoding = userSetEncoding]]
  /\ UNCHANGED <<mgrVars, chanVars, crashed, shut, sessVars, offlineVars>>

\* a Range that finds no lobby, whatever is registered
CreateRangeNoMatch(p) ==
  /\ ~crashed
  /\ creator[p].pc = "range"
  /\ creator' = [creator EXCEPT ![p].pc = "alloc"]
  /\ UNCHANGED <<mgrVars, chanVars, crashed, shut, sessVars, offlineVars>>

\* CreateLobby, lines 88-99: look for a lobby of the same colony
CreateRange(p) ==
  /\ ~crashed
  /\ creator[p].pc = "range"
  /\ LET same == {id \in DOMAIN Lobbies :
                    lobbies[Lobbies[id]].ColonyID = creator[p].colonyID}
     IN IF same # {}
        THEN \E id \in same :
               creator' = [creator EXCEPT ![p].pc = "returned",
                                          ![p].lobby = Lobbies[id],
                                          ![p].result = id]
        ELSE creator' = [creator EXCEPT ![p].pc = "alloc"]
  /\ UNCHANGED <<mgrVars, chanVars, crashed, shut, sessVars, offlineVars>>

\* CreateLobby, lines 101-109: allocate the ID and build the lobby
CreateAlloc(p) ==
  /\ ~crashed
  /\ creator[p].pc = "alloc"
  /\ nextLobbyID' = AtomicAdd(nextLobbyID)
  /\ lobbies' = Append(lobbies,
                  NewLobby(nextLobbyID', creator[p].ownerID,
                           creator[p].colonyID,
                           EncodingToUse(creator[p].encoding)))
  /\ creator' = [creator EXCEPT ![p].pc = "store",
                                ![p].lobby = Len(lobbies) + 1]
  /\ UNCHANGED <<Lobbies, acceptsNewLobbies, chanVars, crashed, shut,
                 sessVars, offlineVars>>

\* CreateLobby, lines 110-113: register the lobby and return it
CreateStore(p) ==
  /\ ~crashed
  /\ creator[p].pc = "store"
  /\ Lobbies' = MapPut(Lobbies, lobbies[creator[p].lobby].ID,
                       creator[p].lobby)
  /\ creator' = [creator EXCEPT ![p].pc = "returned",
                                ![p].result = lobbies[creator[p].lobby].ID]
  /\ UNCHANGED <<lobbies, nextLobbyID, acceptsNewLobbies, chanVars, crashed,
                 shut, sessVars, offlineVars>>

\* ---------------------------------------------------------------- broadcast
\* BroadcastMessage: one write per client of the lobby; a write to a
\* transport the server has closed fails and delivers nothing
BroadcastMessage(clients, cn, message) ==
  [t \in Sessions |->
     IF t \in RangeOf(clients) /\ cn[t] = "open"
     THEN sent[t] \cup {message} ELSE sent[t]]

\* ------------------------------------------------------------ Lobby.close
\* line 281: lobby.BroadcastMessage(SERVER_ID, LOBBY_CLOSING)
closeBroadcast(o) ==
  /\ sent' = BroadcastMessage(lobbies[o].Clients, conn, LOBBY_CLOSING)
  /\ UNCHANGED <<mgrVars, chanVars, crashed, creator, conn, State, offlineVars>>

\* line 282: lobby.Closing.Store(true)
closeStore(o) ==
  /\ lobbies' = [lobbies EXCEPT ![o].Closing = TRUE]
  /\ UNCHANGED <<Lobbies, nextLobbyID, acceptsNewLobbies, chanVars, crashed,
                 creator, conn, sent, State, offlineVars>>

\* line 283: lobby.CloseQueue <- lobby.  A send on a closed channel
\* panics; a send on a full channel blocks until the drainer has taken a
\* lobby.
closeSend(o) ==
  /\ IF queueClosed
     THEN crashed' = TRUE /\ UNCHANGED CloseQueue
     ELSE /\ Len(CloseQueue) < CloseQueueCap
          /\ CloseQueue' = Append(CloseQueue, o)
          /\ UNCHANGED crashed
  /\ UNCHANGED <<mgrVars, queueClosed, drainerDone, drainer, creator, conn,
                 sent, State, offlineVars>>

\* --------------------------------------------------- ShutdownLobbyManager
\* line 57: lm.acceptsNewLobbies.Store(false)
ShutdownBegin ==
  /\ ~crashed
  /\ shut.pc = "idle"
  /\ acceptsNewLobbies' = FALSE
  /\ shut' = [shut EXCEPT !.pc = "snapshot"]
  /\ UNCHANGED <<Lobbies, lobbies, nextLobbyID, chanVars, crashed, creator,
                 sessVars, offlineVars>>

\* line 62: lm.Lobbies.Range starts; the iteration goes over the lobbies
\* that are registered at this point
ShutdownRange ==
  /\ ~crashed
  /\ shut.pc = "snapshot"
  /\ shut' = [shut EXCEPT !.pc = "range", !.present = Lobbies]
  /\ UNCHANGED <<mgrVars, chanVars, crashed, creator, sessVars, offlineVars>>

\* lines 62-63: the Range callback is called with a lobby and broadcasts
\* SERVER_CLOSING to it
ShutdownVisit ==
  /\ ~crashed
  /\ shut.pc = "range"
  /\ \E id \in (DOMAIN shut.present) \ shut.visited :
       /\ shut' = [shut EXCEPT !.pc = "closeBroadcast",
                               !.visited = shut.visited \cup {id},
                               !.lobby = shut.present[id]]
       /\ sent' = BroadcastMessage(lobbies[shut.present[id]].Clients, conn,
                                   SERVER_CLOSING)
  /\ UNCHANGED <<mgrVars, chanVars, crashed, creator, sess, conn, State, offlineVars>>

\* line 64: value.close(), line 281
ShutdownCloseBroadcast ==
  /\ ~crashed
  /\ shut.pc = "closeBroadcast"
  /\ closeBroadcast(shut.lobby)
  /\ shut' = [shut EXCEPT !.pc = "closeStore"]
  /\ UNCHANGED sess

\* line 64: value.close(), line 282
ShutdownCloseStore ==
  /\ ~crashed
  /\ shut.pc = "closeStore"
  /\ closeStore(shut.lobby)
  /\ shut' = [shut EXCEPT !.pc = "closeSend"]
  /\ UNCHANGED sess

\* line 64: value.close(), line 283, and back to the Range
ShutdownCloseSend ==
  /\ ~crashed
  /\ shut.pc = "closeSend"
  /\ closeSend(shut.lobby)
  /\ shut' = [shut EXCEPT !.pc = "range"]
  /\ UNCHANGED sess

\* line 69: the Range is over; close(lm.CloseQueue)
ShutdownCloseQueue ==
  /\ ~crashed
  /\ shut.pc = "range"
  /\ shut.visited = DOMAIN shut.present
  /\ queueClosed' = TRUE
  /\ shut' = [shut EXCEPT !.pc = "done"]
  /\ UNCHANGED <<mgrVars, CloseQueue, drainerDone, drainer, crashed,
                 creator, sessVars, offlineVars>>

\* ------------------------------------------------------- processClosures
\* line 50: `for lobby := range lm.CloseQueue` receives a lobby
DrainReceive ==
  /\ ~crashed
  /\ ~drainerDone
  /\ drainer.pc = "receive"
  /\ CloseQueue # << >>
  /\ CloseQueue' = Tail(CloseQueue)
  /\ drainer' = [pc |-> "unregister", lobby |-> Head(CloseQueue),
                 pending |-> {}]
  /\ UNCHANGED <<mgrVars, queueClosed, drainerDone, crashed, creator, shut,
                 sessVars, offlineVars>>

\* a Load in place of the LoadAndDelete: the lobby the queue hands over is
\* shut down whether it is still registered or not
UnregisterLobbyAnyway(o) ==
  /\ Lobbies' = MapDel(Lobbies, lobbies[o].ID)
  /\ drainer' = [pc |-> "shutdown", lobby |-> o, pending |-> {}]

\* UnregisterLobby, lines 75-76: LoadAndDelete by the ID of the lobby;
\* shutdown() is next for the lobby found, the loop for a lobby that is no
\* longer registered
UnregisterLobby(o) ==
  LET id == lobbies[o].ID IN
  IF id \in DOMAIN Lobbies
  THEN /\ Lobbies' = MapDel(Lobbies, id)
       /\ drainer' = [pc |-> "shutdown", lobby |-> Lobbies[id],
                      pending |-> {}]
  ELSE /\ UNCHANGED Lobbies
       /\ drainer' = Receiving

\* line 52: lm.UnregisterLobby(lobby)
DrainUnregister ==
  /\ ~crashed
  /\ drainer.pc = "unregister"
  /\ UnregisterLobby(drainer.lobby)
  /\ UNCHANGED <<lobbies, nextLobbyID, acceptsNewLobbies, CloseQueue,
                 queueClosed, drainerDone, crashed, creator, shut, sessVars,
                 offlineVars>>

\* Lobby.shutdown, line 288: the Range over the Clients map starts; it
\* goes over the clients that are in the map at this point.  shutdowns
\* counts the calls of shutdown() on a lobby.
shutdown ==
  /\ ~crashed
  /\ drainer.pc = "shutdown"
  /\ lobbies' = [lobbies EXCEPT ![drainer.lobby].shutdowns = @ + 1]
  /\ LET clients == RangeOf(lobbies[drainer.lobby].Clients)
     IN drainer' = IF clients = {} THEN Receiving
                   ELSE [drainer EXCEPT !.pc = "closing",
                                        !.pending = clients]
  /\ UNCHANGED <<Lobbies, nextLobbyID, acceptsNewLobbies, CloseQueue,
                 queueClosed, drainerDone, crashed, creator, shut, sessVars,
                 offlineVars>>

\* Lobby.shutdown, line 289: value.Conn.Close() for one client of the
\* Range; after the last one shutdown() and UnregisterLobby return
shutdownClose ==
  /\ ~crashed
  /\ drainer.pc = "closing"
  /\ \E t \in drainer.pending :
       /\ conn' = [conn EXCEPT ![t] = "closed"]
       /\ drainer' = IF drainer.pending = {t} THEN Receiving
                     ELSE [drainer EXCEPT !.pending = @ \ {t}]
  /\ UNCHANGED <<mgrVars, CloseQueue, queueClosed, drainerDone, crashed,
                 creator, shut, sess, sent, State, offlineVars>>

\* processClosures on lobbies that have no client
drainLobbies == DrainReceive \/ DrainUnregister \/ shutdown

\* processClosures, one step of the goroutine
Drain == drainLobbies \/ shutdownClose

\* the channel is closed and empty: the range loop ends
DrainerExit ==
  /\ ~crashed
  /\ ~drainerDone
  /\ drainer.pc = "receive"
  /\ CloseQueue = << >>
  /\ queueClosed
  /\ drainerDone' = TRUE
  /\ UNCHANGED <<mgrVars, CloseQueue, queueClosed, drainer, crashed, creator,
                 shut, sessVars, offlineVars>>

\* ------------------------------------------------------- /connect and join
\* the lobby IDs the /connect requests of the runs ask for
RequestedLobbyIDs == (FirstNextLobbyID + 1)..(FirstNextLobbyID + NumCreators)

\* const SERVER_ID = math.MaxUint32.  A uint32 is held as its 32-bit
\* pattern, and a pattern with the top bit set reads as a negative integer
\* (two's complement): 0xFFFFFFFF is -1.
SERVER_ID == -1

\* strconv.Atoi gives a Go int of 64 bits, held as <<high 32 bits, low 32
\* bits>>; the conversion uint32(i) keeps the low 32 bits
uint32(i) == i[2]

\* the clientID parameters of the /connect requests with unusual values:
\* Atoi of "7", of "4294967295" and of "-1"
ConnectClientIDs == {<<0, 7>>, <<0, -1>>, <<-1, -1>>}

\* a query parameter that is a decimal number, as the 64-bit int it
\* stands for
Decimal(i) == <<0, i>>

\* the lobbyID and clientID parameters of the /connect requests that also
\* lie outside the uint32 range: the ID of the lobby and the ID of its
\* owner, the same plus 2^32, the ID of the lobby minus 2^32, and a
\* parameter that is missing
QueryLobbyIDs ==
  {Decimal(AtomicAdd(FirstNextLobbyID)), <<1, AtomicAdd(FirstNextLobbyID)>>,
   <<-1, AtomicAdd(FirstNextLobbyID)>>, << >>}
QueryClientIDs == {<<0, 7>>, <<1, 7>>, << >>}

\* getAsInt: an error for a missing parameter, else strconv.Atoi
getAsInt(value) ==
  IF value = << >> THEN [err |-> TRUE, int |-> <<0, 0>>]
  ELSE [err |-> FALSE, int |-> value]

\* the handler's switch over err.Type: 404, 409, 410
HttpStatus(e) ==
  IF e = {JoinErrorNotFound} THEN 404
  ELSE IF e = {JoinErrorAlreadyInLobby} THEN 409
  ELSE 410

\* the call started with the two arguments in the other order
CloseColonySwapped(e, colonyID, colonyOwnerID) ==
  IF e = {JoinErrorNotFound}
  THEN <<[colonyID |-> colonyOwnerID, ownerID |-> colonyID]>>
  ELSE << >>

\* IsJoinPossible, line 122: go ...CloseColony(colonyID, colonyOwnerID)
\* when the lobby is not registered, and in no other case
CloseColony(e, colonyID, colonyOwnerID) ==
  IF e = {JoinErrorNotFound}
  THEN <<[colonyID |-> colonyID, ownerID |-> colonyOwnerID]>>
  ELSE << >>

\* the request is answered with the HTTP status of a join error
Refused(s, e) ==
  [sess EXCEPT ![s].pc = "rejected", ![s].err = e, ![s].status = HttpStatus(e)]

\* lobby.Sync.Unlock(), deferred to the return of IsJoinPossible
Unlock(o) == [lobbies EXCEPT ![o].Sync = 0]

\* webSocketConnectionRequestHandler up to the first line of
\* IsJoinPossible: the parameters lobbyID and clientID go through getAsInt
\* (400 on an error) and uint32(), then lm.Lobbies.Load (line 117): a
\* lobby that is not registered gives JoinErrorNotFound and the call of
\* CloseColony.  The requests are numbered in the order in which they
\* arrive.
IsJoinPossible(s, queryLobbyID, queryClientID, colonyID, colonyOwnerID) ==
  /\ ~crashed
  /\ sess[s].pc = "idle"
  /\ \A t \in Sessions : t < s => sess[t].pc # "idle"
  /\ LET lobbyID == uint32(getAsInt(queryLobbyID).int)
         clientID == uint32(getAsInt(queryClientID).int)
         e == {JoinErrorNotFound}
         request == [sess[s] EXCEPT !.lobbyID = lobbyID,
                                    !.clientID = clientID,
                                    !.colonyID = colonyID,
                                    !.ownerID = colonyOwnerID,
                                    !.query = [lobbyID |-> queryLobbyID,
                                               clientID |-> queryClientID]]
     IN IF getAsInt(queryLobbyID).err \/ getAsInt(queryClientID).err
        THEN sess' = [sess EXCEPT ![s] =
                        [sess[s] EXCEPT
                           !.pc = "rejected", !.status = 400,
                           !.query = [lobbyID |-> queryLobbyID,
                                      clientID |-> queryClientID]]]
        ELSE IF lobbyID \notin DOMAIN Lobbies
        THEN sess' = [sess EXCEPT ![s] =
                        [request EXCEPT
                           !.pc = "rejected", !.err = e,
                           !.status = HttpStatus(e),
                           !.closeColony =
                              CloseColony(e, colonyID, colonyOwnerID)]]
        ELSE sess' = [sess EXCEPT ![s] =
                        [request EXCEPT !.pc = "lock",
                                        !.lobby = Lobbies[lobbyID]]]
  /\ UNCHANGED <<mgrVars, chanVars, crashed, creator, shut, conn, sent, State,
                 offlineVars>>

\* IsJoinPossible, line 126: lobby.Sync.Lock() waits until the lock is free
IsJoinPossibleLock(s) ==
  /\ ~crashed
  /\ sess[s].pc = "lock"
  /\ lobbies[sess[s].lobby].Sync = 0
  /\ lobbies' = [lobbies EXCEPT ![sess[s].lobby].Sync = s]
  /\ sess' = [sess EXCEPT ![s].pc = "closingCheck"]
  /\ UNCHANGED <<Lobbies, nextLobbyID, acceptsNewLobbies, chanVars, crashed,
                 creator, shut, conn, sent, State, offlineVars>>

\* IsJoinPossible, lines 129-131: lobby.Closing.Load(); JoinErrorClosing is
\* answered 410
IsJoinPossibleClosing(s) ==
  /\ ~crashed
  /\ sess[s].pc = "closingCheck"
  /\ IF lobbies[sess[s].lobby].Closing
     THEN /\ sess' = Refused(s, {JoinErrorClosing})
          /\ lobbies' = Unlock(sess[s].lobby)
     ELSE /\ sess' = [sess EXCEPT ![s].pc = "clientCheck"]
          /\ UNCHANGED lobbies
  /\ UNCHANGED <<Lobbies, nextLobbyID, acceptsNewLobbies, chanVars, crashed,
                 creator, shut, conn, sent, State, offlineVars>>

\* IsJoinPossible, lines 133-137: lobby.Clients.Load(clientID);
\* JoinErrorAlreadyInLobby is answered 409, nil lets the handler go on to
\* the upgrade
IsJoinPossibleClients(s) ==
  /\ ~crashed
  /\ sess[s].pc = "clientCheck"
  /\ sess' = IF sess[s].clientID \in DOMAIN lobbies[sess[s].lobby].Clients
             THEN Refused(s, {JoinErrorAlreadyInLobby})
             ELSE [sess EXCEPT ![s].pc = "upgrade"]
  /\ lobbies' = Unlock(sess[s].lobby)
  /\ UNCHANGED <<Lobbies, nextLobbyID, acceptsNewLobbies, chanVars, crashed,
                 creator, shut, conn, sent, State, offlineVars>>

\* the handler, lines 425-431: upgrader.Upgrade gives the transport, or
\* fails (no websocket handshake, the remote end gone) and the request is
\* answered 500 without a call of JoinLobby
Upgrade(s, ok) ==
  /\ ~crashed
  /\ sess[s].pc = "upgrade"
  /\ IF ok
     THEN /\ sess' = [sess EXCEPT ![s].pc = "join"]
          /\ conn' = [conn EXCEPT ![s] = "open"]
     ELSE /\ sess' = [sess EXCEPT ![s].pc = "rejected", ![s].status = 500]
          /\ UNCHANGED conn
  /\ UNCHANGED <<mgrVars, chanVars, crashed, creator, shut, sent, State,
                 offlineVars>>

\* JoinLobby returns an error to the handler
JoinFails(s, e) == [sess EXCEPT ![s].pc = "joinErr", ![s].err = e]

\* the handler, lines 435-438: DEBUG 500 with the error is written to the
\* new transport
JoinErrReply(s) ==
  /\ ~crashed
  /\ sess[s].pc = "joinErr"
  /\ sent' = [sent EXCEPT ![s] = @ \cup {DEBUG(500)}]
  /\ sess' = [sess EXCEPT ![s].pc = "joinErrClose"]
  /\ UNCHANGED <<mgrVars, chanVars, crashed, creator, shut, conn, State,
                 offlineVars>>

\* the handler, line 439: conn.Close()
JoinErrClose(s) ==
  /\ ~crashed
  /\ sess[s].pc = "joinErrClose"
  /\ conn' = [conn EXCEPT ![s] = "closed"]
  /\ sess' = [sess EXCEPT ![s].pc = "joinFailed"]
  /\ UNCHANGED <<mgrVars, chanVars, crashed, creator, shut, sent, State,
                 offlineVars>>

\* JoinLobby, lines 142-145: lm.Lobbies.Load(lobbyID)
JoinLoad(s) ==
  /\ ~crashed
  /\ sess[s].pc = "join"
  /\ sess' = IF sess[s].lobbyID \notin DOMAIN Lobbies
             THEN JoinFails(s, {JoinErrorNotFound})
             ELSE [sess EXCEPT ![s].pc = "joinClosing",
                               ![s].lobby = Lobbies[sess[s].lobbyID]]
  /\ UNCHANGED <<mgrVars, chanVars, crashed, creator, shut, conn, sent, State,
                 offlineVars>>

\* JoinLobby, lines 147-149: lobby.Closing.Load()
JoinClosing(s) ==
  /\ ~crashed
  /\ sess[s].pc = "joinClosing"
  /\ sess' = IF lobbies[sess[s].lobby].Closing
             THEN JoinFails(s, {JoinErrorClosing})
             ELSE [sess EXCEPT ![s].pc = "joinClients"]
  /\ UNCHANGED <<mgrVars, chanVars, crashed, creator, shut, conn, sent, State,
                 offlineVars>>

\* JoinLobby, lines 151-159: lobby.Clients.Load(clientID), and NewClient
\* with the origin type of the client
JoinClients(s) ==
  /\ ~crashed
  /\ sess[s].pc = "joinClients"
  /\ LET o == sess[s].lobby IN
       sess' = IF sess[s].clientID \in DOMAIN lobbies[o].Clients
               THEN JoinFails(s, {JoinErrorAlreadyInLobby})
               ELSE [sess EXCEPT
                       ![s].pc = "joinBroadcast",
                       ![s].Type = IF lobbies[o].OwnerID = sess[s].clientID
                                   THEN ORIGIN_TYPE_OWNER
                                   ELSE ORIGIN_TYPE_GUEST]
  /\ UNCHANGED <<mgrVars, chanVars, crashed, creator, shut, conn, sent, State,
                 offlineVars>>

\* JoinLobby, lines 142-159: the three loads take no lock
JoinChecks(s) == JoinLoad(s) \/ JoinClosing(s) \/ JoinClients(s)

\* JoinLobby, lines 161-170: Serialize of the PLAYER_JOINED message, which
\* fails (JoinErrorSerializationFailure) or gives the message that goes to
\* the clients of the lobby.  Serialize and the declaration of
\* PLAYER_JOINED_EVENT are not in the sources at hand: err says which.
JoinBroadcast(s, err) ==
  /\ ~crashed
  /\ sess[s].pc = "joinBroadcast"
  /\ IF err
     THEN /\ sess' = JoinFails(s, {JoinErrorSerializationFailure})
          /\ UNCHANGED sent
     ELSE /\ sent' = BroadcastMessage(lobbies[sess[s].lobby].Clients, conn,
                                      PLAYER_JOINED(sess[s].clientID))
          /\ sess' = [sess EXCEPT ![s].pc = "joinStore"]
  /\ UNCHANGED <<mgrVars, chanVars, crashed, creator, shut, conn, State, offlineVars>>

\* JoinLobby, lines 172-176: Clients.Store and go handleConnection
JoinStore(s) ==
  /\ ~crashed
  /\ sess[s].pc = "joinStore"
  /\ lobbies' = [lobbies EXCEPT ![sess[s].lobby].Clients =
                   MapPut(@, sess[s].clientID, s)]
  /\ sess' = [sess EXCEPT ![s].pc = "reading"]
  /\ UNCHANGED <<Lobbies, nextLobbyID, acceptsNewLobbies, chanVars, crashed,
                 creator, shut, conn, sent, State, offlineVars>>

\* ------------------------------------------------------- handleConnection
\* lines 118-130: ReadMessage returns a frame; a text frame goes through
\* hex.DecodeString
ReadMessage(s, m) ==
  /\ ~crashed
  /\ sess[s].pc = "reading"
  /\ conn[s] = "open"
  /\ \E inPlace \in DecodesInPlace(m) :
       sess' = [sess EXCEPT
                  ![s].pc = IF m.dataType = TextMessage /\ m.decodeErr
                            THEN "decodeErr" ELSE "process",
                  ![s].msg = m,
                  ![s].inPlace = inPlace]
  /\ UNCHANGED <<mgrVars, chanVars, crashed, creator, shut, conn, sent,
                 State, offlineVars>>

\* lines 118-122: ReadMessage fails because the server has closed the
\* transport; the loop ends and line 188 runs onDisconnect
ReadError(s) ==
  /\ ~crashed
  /\ sess[s].pc = "reading"
  /\ conn[s] = "closed"
  /\ sess' = [sess EXCEPT ![s].pc = "onDisconnect",
                          ![s].inCloseHandler = FALSE]
  /\ UNCHANGED <<mgrVars, chanVars, crashed, creator, shut, conn, sent,
                 State, offlineVars>>

\* lines 118-122: ReadMessage fails because the remote end is gone
PeerDrop(s) ==
  /\ ~crashed
  /\ sess[s].pc = "reading"
  /\ conn[s] = "open"
  /\ sess' = [sess EXCEPT ![s].pc = "onDisconnect",
                          ![s].inCloseHandler = FALSE]
  /\ UNCHANGED <<mgrVars, chanVars, crashed, creator, shut, conn, sent,
                 State, offlineVars>>

\* lines 108-113: the remote end sends a close frame; ReadMessage runs the
\* close handler, which runs onDisconnect, and fails afterwards
PeerClose(s) ==
  /\ ~crashed
  /\ sess[s].pc = "reading"
  /\ conn[s] = "open"
  /\ sess' = [sess EXCEPT ![s].pc = "onDisconnect",
                          ![s].inCloseHandler = TRUE]
  /\ UNCHANGED <<mgrVars, chanVars, crashed, creator, shut, conn, sent,
                 State, offlineVars>>

\* the loop of s is left by a break: the frame and the client it loaded
\* are dropped and line 188 is next
Break(s) ==
  [sess EXCEPT ![s].pc = "onDisconnect", ![s].msg = NoMsg, ![s].loaded = 0,
               ![s].inPlace = FALSE, ![s].inCloseHandler = FALSE]

\* the loop of s goes on with the next frame
NextFrame(s) ==
  [sess EXCEPT ![s].pc = "reading", ![s].msg = NoMsg, ![s].loaded = 0,
               ![s].inPlace = FALSE]

\* lines 130-136: hex.DecodeString failed; DEBUG 400 "Error decoding
\* message" is written to the client the read loop was started for.  The
\* loop ends if the write fails; if not, the bytes decoded before the
\* error go on to line 147.
DecodeErrReply(s) ==
  /\ ~crashed
  /\ sess[s].pc = "decodeErr"
  /\ IF conn[s] = "open"
     THEN /\ sent' = [sent EXCEPT ![s] = @ \cup {DEBUG_DECODING}]
          /\ sess' = [sess EXCEPT ![s].pc = "process"]
     ELSE /\ sess' = Break(s)
          /\ UNCHANGED sent
  /\ UNCHANGED <<mgrVars, chanVars, crashed, creator, shut, conn, State,
                 offlineVars>>

\* SendDebugInfoToClient(client, code, ...) inside the read loop of s: the
\* DEBUG goes to the transport of `client`; if the write fails the loop of
\* s ends, if not it goes on with the next frame
SendDebugInfoToClient(s, client, code) ==
  IF conn[client] = "open"
  THEN /\ sent' = [sent EXCEPT ![client] = @ \cup {DEBUG(code)}]
       /\ sess' = NextFrame(s)
  ELSE /\ UNCHANGED sent
       /\ sess' = Break(s)

\* DisclosedClientState.UpdateAny: LastKnownPosition of a PLAYER_MOVE
UpdateAny(state, messageID, remainder, beyond) ==
  IF messageID = PLAYER_MOVE_EVENT.ID
  THEN BigEndianUint32(ElementBytes(PLAYER_MOVE_STRUCTURE, 1, remainder,
                                    beyond))
  ELSE state

\* ActivityTracker.ChangeActivityID and ChangeDifficultyID: the ID is
\* stored and the phase is Selecting
ChangeActivityID(tracker, minigameID) ==
  [tracker EXCEPT !.currentActivityID = minigameID, !.phase = "Selecting"]
ChangeDifficultyID(tracker, difficultyID) ==
  [tracker EXCEPT !.currentDifficultyID = difficultyID,
                  !.phase = "Selecting"]

\* the client the read loop goes on with after lobby.Clients.Load(clientID)
LoadedClient(s, lobby, clientID) == lobby.Clients[clientID]

\* lines 148-155: ExtractClientIDAndMessageID failed; DEBUG 400 goes to the
\* client the read loop was started for
extractErrReplyDropped(s) ==
  /\ sess' = [sess EXCEPT ![s].pc = "reading", ![s].msg = NoMsg]
  /\ UNCHANGED sent

extractErrReply(s) == SendDebugInfoToClient(s, s, 400)

\* lines 137-175 for the frame that line 136 let through, up to
\* lobby.Clients.Load: a frame that is neither text nor binary is answered
\* with DEBUG 404; the frame is parsed, a parsing error is answered with
\* DEBUG 400; the client is looked up by the senderID of the header (line
\* 158) and the permission of the client found is looked at (line 167)
Process(s) ==
  /\ ~crashed
  /\ sess[s].pc = "process"
  /\ LET m == sess[s].msg
         lobby == lobbies[sess[s].lobby]
     IN IF m.dataType \notin {TextMessage, BinaryMessage}
        THEN SendDebugInfoToClient(s, s, 404)
        ELSE IF ExtractClientIDAndMessageID(m) # ""
        THEN extractErrReply(s)
        ELSE IF m.senderID \notin DOMAIN lobby.Clients
        THEN /\ sess' = [sess EXCEPT ![s].pc = "unknownSender"]
             /\ UNCHANGED sent
        ELSE LET client == LoadedClient(s, lobby, m.senderID) IN
             /\ sess' = [sess EXCEPT
                           ![s].pc = IF m.spec.SendPermissions[
                                          sess[client].Type]
                                     THEN "handler" ELSE "unauthorized",
                           ![s].loaded = client]
             /\ UNCHANGED sent
  /\ UNCHANGED <<mgrVars, chanVars, crashed, creator, shut, conn, State,
                 offlineVars>>

\* lines 159-165: no client was found, and line 161 calls
\* SendDebugInfoToClient with the nil `client`: it panics, or it returns
\* an error (the loop ends), or it returns nil (the loop goes on); no
\* DEBUG is written in any of the three
UnknownSenderReply(s) ==
  /\ ~crashed
  /\ sess[s].pc = "unknownSender"
  /\ \/ crashed' = TRUE /\ UNCHANGED sess
     \/ sess' = Break(s) /\ UNCHANGED crashed
     \/ sess' = NextFrame(s) /\ UNCHANGED crashed
  /\ UNCHANGED <<mgrVars, chanVars, creator, shut, conn, sent, State,
                 offlineVars>>

\* lines 167-173: the client found may not send the message; DEBUG 401
\* goes to that client
UnauthorizedReply(s) ==
  /\ ~crashed
  /\ sess[s].pc = "unauthorized"
  /\ SendDebugInfoToClient(s, sess[s].loaded, 401)
  /\ UNCHANGED <<mgrVars, chanVars, crashed, creator, shut, conn, State,
                 offlineVars>>

\* processClientMessage, lines 194-202: spec.Handler runs and returns r.
\* An UnresponsiveClientsError is passed over like nil: UpdateAny is next
\* for a PLAYER_MOVE, updateTrackedActivity for a
\* DIFFICULTY_SELECT_FOR_MINIGAME of the owner (UpdateAny has no case for
\* it), the next frame for any other message.
Handler(s, r) ==
  /\ ~crashed
  /\ sess[s].pc = "handler"
  /\ LET m == sess[s].msg
         client == sess[s].loaded
     IN sess' = IF r = "error"
                THEN [sess EXCEPT ![s].pc = "handlingErr"]
                ELSE IF m.spec.ID = PLAYER_MOVE_EVENT.ID
                THEN [sess EXCEPT ![s].pc = "updateAny"]
                ELSE IF /\ m.spec.ID = DIFFICULTY_SELECT_FOR_MINIGAME_EVENT.ID
                        /\ sess[client].Type = ORIGIN_TYPE_OWNER
                THEN [sess EXCEPT ![s].pc = "changeActivityID"]
                ELSE NextFrame(s)
  /\ UNCHANGED <<mgrVars, chanVars, crashed, creator, shut, conn, sent, State,
                 offlineVars>>

\* processClientMessage, lines 195-198: the error of the handler is
\* answered with DEBUG 500 "Error handling message" to the client loaded
\* (the result of the write is dropped) and returned to line 178
HandlingErrReply(s) ==
  /\ ~crashed
  /\ sess[s].pc = "handlingErr"
  /\ sent' = IF conn[sess[s].loaded] = "open"
             THEN [sent EXCEPT ![sess[s].loaded] = @ \cup {DEBUG(500)}]
             ELSE sent
  /\ sess' = [sess EXCEPT ![s].pc = "processingErr", ![s].msg = NoMsg,
                          ![s].inPlace = FALSE]
  /\ UNCHANGED <<mgrVars, chanVars, crashed, creator, shut, conn, State,
                 offlineVars>>

\* processClientMessage, line 204, client.go 31-35: UpdateAny takes the
\* location ID of a PLAYER_MOVE out of `remainder` (the slice expression
\* panics when it is out of the capacity) and stores it in the
\* LastKnownPosition of the client loaded; updateTrackedActivity has no
\* case for the message
UpdateState(s) ==
  /\ ~crashed
  /\ sess[s].pc = "updateAny"
  /\ LET m == sess[s].msg
         beyond == PastTheEnd(m, sess[s].inPlace)
     IN IF ElementPanics(PLAYER_MOVE_STRUCTURE, 1, Remainder(m), beyond)
        THEN /\ crashed' = TRUE
             /\ UNCHANGED <<sess, State>>
        ELSE /\ State' = [State EXCEPT ![sess[s].loaded] =
                            UpdateAny(@, m.spec.ID, Remainder(m), beyond)]
             /\ sess' = NextFrame(s)
             /\ UNCHANGED crashed
  /\ UNCHANGED <<mgrVars, chanVars, creator, shut, conn, sent, offlineVars>>

\* updateTrackedActivity, lines 220-223: the minigame ID is taken out of
\* `remainder` and handed to ChangeActivityID
TrackActivityID(s) ==
  /\ ~crashed
  /\ sess[s].pc = "changeActivityID"
  /\ LET m == sess[s].msg
         beyond == PastTheEnd(m, sess[s].inPlace)
     IN IF ElementPanics(DIFFICULTY_SELECT_FOR_MINIGAME_STRUCTURE, 0,
                         Remainder(m), beyond)
        THEN /\ crashed' = TRUE
             /\ UNCHANGED <<sess, lobbies>>
        ELSE /\ lobbies' =
                  [lobbies EXCEPT ![sess[s].lobby].activityTracker =
                     ChangeActivityID(@, TrackedActivityUint32(ElementBytes(
                       DIFFICULTY_SELECT_FOR_MINIGAME_STRUCTURE, 0,
                       Remainder(m), beyond)))]
             /\ sess' = [sess EXCEPT ![s].pc = "changeDifficultyID"]
             /\ UNCHANGED crashed
  /\ UNCHANGED <<Lobbies, nextLobbyID, acceptsNewLobbies, chanVars, creator,
                 shut, conn, sent, State, offlineVars>>

\* updateTrackedActivity, lines 225-228: the difficulty ID is taken out of
\* `remainder` and handed to ChangeDifficultyID
TrackDifficultyID(s) ==
  /\ ~crashed
  /\ sess[s].pc = "changeDifficultyID"
  /\ LET m == sess[s].msg
         beyond == PastTheEnd(m, sess[s].inPlace)
     IN IF ElementPanics(DIFFICULTY_SELECT_FOR_MINIGAME_STRUCTURE, 1,
                         Remainder(m), beyond)
        THEN /\ crashed' = TRUE
             /\ UNCHANGED <<sess, lobbies>>
        ELSE /\ lobbies' =
                  [lobbies EXCEPT ![sess[s].lobby].activityTracker =
                     ChangeDifficultyID(@, TrackedActivityUint32(ElementBytes(
                       DIFFICULTY_SELECT_FOR_MINIGAME_STRUCTURE, 1,
                       Remainder(m), beyond)))]
             /\ sess' = NextFrame(s)
             /\ UNCHANGED crashed
  /\ UNCHANGED <<Lobbies, nextLobbyID, acceptsNewLobbies, chanVars, creator,
                 shut, conn, sent, State, offlineVars>>

\* updateTrackedActivity, lines 216-245: its two calls on the tracker take
\* no lock
updateTrackedActivity(s) == TrackActivityID(s) \/ TrackDifficultyID(s)

\* lines 178-185: processClientMessage returned an error; DEBUG 500 "Error
\* processing message" is written to the client that line 158 loaded, and
\* the loop ends if the write fails
ProcessingErrReply(s) ==
  /\ ~crashed
  /\ sess[s].pc = "processingErr"
  /\ IF conn[sess[s].loaded] = "open"
     THEN /\ sent' = [sent EXCEPT ![sess[s].loaded] =
                        @ \cup {DEBUG_PROCESSING}]
          /\ sess' = NextFrame(s)
     ELSE /\ sess' = Break(s)
          /\ UNCHANGED sent
  /\ UNCHANGED <<mgrVars, chanVars, crashed, creator, shut, conn, State,
                 offlineVars>>

\* where onDisconnect returns to: out of the close handler (ReadMessage
\* then fails and line 188 runs onDisconnect again), or to the end of
\* handleConnection
Returned(s) ==
  IF sess[s].inCloseHandler
  THEN [sess EXCEPT ![s].pc = "onDisconnect", ![s].inCloseHandler = FALSE]
  ELSE [sess EXCEPT ![s].pc = "done"]

\* RemoveClient, lines 261-265, as the first call of
\* handleGuestDisconnect and handleOwnerDisconnect: lobby.Clients.Load.
\* When the client is not in the map, Load leaves `client` nil and line
\* 263 dereferences it.
RemoveLoad(s) ==
  /\ ~crashed
  /\ sess[s].pc = "onDisconnect"
  /\ LET o == sess[s].lobby
         id == sess[s].clientID
     IN IF id \notin DOMAIN lobbies[o].Clients
        THEN crashed' = TRUE /\ UNCHANGED sess
        ELSE /\ sess' = [sess EXCEPT ![s].pc = "removeDelete",
                                     ![s].loaded = lobbies[o].Clients[id]]
             /\ UNCHANGED crashed
  /\ UNCHANGED <<mgrVars, chanVars, creator, shut, conn, sent, State,
                 offlineVars>>

\* RemoveClient, line 267: lobby.Clients.Delete(client.ID)
RemoveDelete(s) ==
  /\ ~crashed
  /\ sess[s].pc = "removeDelete"
  /\ lobbies' = [lobbies EXCEPT ![sess[s].lobby].Clients =
                   MapDel(@, sess[sess[s].loaded].clientID)]
  /\ sess' = [sess EXCEPT ![s].pc = "removeClose"]
  /\ UNCHANGED <<Lobbies, nextLobbyID, acceptsNewLobbies, chanVars, crashed,
                 creator, shut, conn, sent, State, offlineVars>>

\* RemoveClient, line 268: client.Conn.Close() on the client loaded
RemoveClose(s) ==
  /\ ~crashed
  /\ sess[s].pc = "removeClose"
  /\ conn' = [conn EXCEPT ![sess[s].loaded] = "closed"]
  /\ sess' = [sess EXCEPT ![s].pc = "removeBroadcast"]
  /\ UNCHANGED <<mgrVars, chanVars, crashed, creator, shut, sent, State,
                 offlineVars>>

\* RemoveClient, lines 270-274: PLAYER_LEFT to the clients in the map, and
\* the return to the disconnect routine
RemoveBroadcast(s) ==
  /\ ~crashed
  /\ sess[s].pc = "removeBroadcast"
  /\ sent' = BroadcastMessage(lobbies[sess[s].lobby].Clients, conn,
                              PLAYER_LEFT(sess[sess[s].loaded].clientID))
  /\ sess' = IF sess[s].Type = ORIGIN_TYPE_OWNER
             THEN [sess EXCEPT ![s].pc = "closeBroadcast", ![s].loaded = 0]
             ELSE [Returned(s) EXCEPT ![s].loaded = 0]
  /\ UNCHANGED <<mgrVars, chanVars, crashed, creator, shut, conn, State,
                 offlineVars>>

\* RemoveClient, lines 260-275: its four steps share no lock
RemoveClient(s) ==
  RemoveLoad(s) \/ RemoveDelete(s) \/ RemoveClose(s) \/ RemoveBroadcast(s)

\* handleOwnerDisconnect, line 254: lobby.close(), line 281
OwnerCloseBroadcast(s) ==
  /\ ~crashed
  /\ sess[s].pc = "closeBroadcast"
  /\ closeBroadcast(sess[s].lobby)
  /\ sess' = [sess EXCEPT ![s].pc = "closeStore"]
  /\ UNCHANGED shut

\* handleOwnerDisconnect, line 254: lobby.close(), line 282
OwnerCloseStore(s) ==
  /\ ~crashed
  /\ sess[s].pc = "closeStore"
  /\ closeStore(sess[s].lobby)
  /\ sess' = [sess EXCEPT ![s].pc = "closeSend"]
  /\ UNCHANGED shut

\* handleOwnerDisconnect, line 254: lobby.close(), line 283, and return
OwnerCloseSend(s) ==
  /\ ~crashed
  /\ sess[s].pc = "closeSend"
  /\ closeSend(sess[s].lobby)
  /\ sess' = IF queueClosed THEN sess ELSE Returned(s)
  /\ UNCHANGED shut

\* ------------------------------------------------------ the registry build
\* one call of ComputeStructure, from entry to return or panic
ComputeStructureCall ==
  /\ registryBuild.pc = "called"
  /\ LET r == ComputeStructure(registryBuild.shortDescription) IN
       registryBuild' =
         [registryBuild EXCEPT
            !.pc = IF r.panic THEN "panicked" ELSE "returned",
            !.minimumTotalSize = r.minimumTotalSize,
            !.computedStructure = r.computedStructure]
  /\ UNCHANGED <<mgrVars, chanVars, crashed, creator, shut, sessVars, wire,
                 codec>>

\* -------------------------------------------------- a uint32 and its bytes
\* NewClient caches the four bytes of the ID
WireEncode ==
  /\ wire.pc = "new"
  /\ wire' = [wire EXCEPT !.pc = "encoded",
                          !.bytes = NewClientIDBytes(wire.build, wire.value)]
  /\ UNCHANGED <<mgrVars, chanVars, crashed, creator, shut, sessVars,
                 registryBuild, codec>>

\* UpdateAny reads the four bytes as a location ID
WireUpdateAny ==
  /\ wire.pc = "encoded"
  /\ wire' = [wire EXCEPT !.pc = "updated",
                          !.LastKnownPosition =
                             UpdateAnyUint32(wire.build, wire.bytes)]
  /\ UNCHANGED <<mgrVars, chanVars, crashed, creator, shut, sessVars,
                 registryBuild, codec>>

\* updateTrackedActivity reads the four bytes as a minigame ID
WireTrackedActivity ==
  /\ wire.pc = "updated"
  /\ wire' = [wire EXCEPT !.pc = "tracked",
                          !.minigameID = TrackedActivityUint32(wire.bytes)]
  /\ UNCHANGED <<mgrVars, chanVars, crashed, creator, shut, sessVars,
                 registryBuild, codec>>

\* ------------------------------------------------ a buffer and its frame
\* a client encodes a buffer in the encoding of its lobby and sends it
CodecEncode ==
  /\ codec.pc = "new"
  /\ codec' = [codec EXCEPT !.pc = "sent",
                            !.frame = Encode(codec.buffer, codec.encoding)]
  /\ UNCHANGED <<mgrVars, chanVars, crashed, creator, shut, sessVars,
                 registryBuild, wire>>

\* the read loop takes the frame up to the call of
\* ExtractClientIDAndMessageID
CodecReceive ==
  /\ codec.pc = "sent"
  /\ LET r == ReceiveFrame(codec.frame) IN
       codec' = [codec EXCEPT !.pc = "received", !.msg = r.msg,
                              !.decodeErr = r.decodeErr]
  /\ UNCHANGED <<mgrVars, chanVars, crashed, creator, shut, sessVars,
                 registryBuild, wire>>

\* ----------------------------------------------------------- specifications
\* the registry build calls ComputeStructure with a structure
InitRegistry ==
  /\ Lobbies = EmptyMap
  /\ lobbies = << >>
  /\ nextLobbyID = FirstNextLobbyID
  /\ acceptsNewLobbies = TRUE
  /\ CloseQueue = << >>
  /\ queueClosed = FALSE
  /\ drainerDone = FALSE
  /\ drainer = Receiving
  /\ crashed = FALSE
  /\ creator = [p \in Creators |->
                 [pc |-> "idle", colonyID |-> 0, ownerID |-> 0,
                  encoding |-> MESSAGE_ENCODING_BINARY,
                  lobby |-> 0, result |-> 0]]
  /\ shut = [pc |-> "idle", present |-> EmptyMap, visited |-> {}, lobby |-> 0]
  /\ sess = [s \in Sessions |-> NewSession]
  /\ conn = [s \in Sessions |-> "none"]
  /\ sent = [s \in Sessions |-> {}]
  /\ State = [s \in Sessions |-> 0]
  /\ registryBuild \in
       {[pc |-> "called", shortDescription |-> d, minimumTotalSize |-> 0,
         computedStructure |-> << >>] : d \in StructuresOfRuns}
  /\ wire = NoWire
  /\ codec = NoCodec

NextRegistry == ComputeStructureCall

\* a uint32 is encoded by NewClient and read back by the two decoders, in
\* a build with either version of the client file
InitWire ==
  /\ Lobbies = EmptyMap
  /\ lobbies = << >>
  /\ nextLobbyID = FirstNextLobbyID
  /\ acceptsNewLobbies = TRUE
  /\ CloseQueue = << >>
  /\ queueClosed = FALSE
  /\ drainerDone = FALSE
  /\ drainer = Receiving
  /\ crashed = FALSE
  /\ creator = [p \in Creators |->
                 [pc |-> "idle", colonyID |-> 0, ownerID |-> 0,
                  encoding |-> MESSAGE_ENCODING_BINARY,
                  lobby |-> 0, result |-> 0]]
  /\ shut = [pc |-> "idle", present |-> EmptyMap, visited |-> {}, lobby |-> 0]
  /\ sess = [s \in Sessions |-> NewSession]
  /\ conn = [s \in Sessions |-> "none"]
  /\ sent = [s \in Sessions |-> {}]
  /\ State = [s \in Sessions |-> 0]
  /\ registryBuild = NoBuild
  /\ wire \in {[pc |-> "new", build |-> b, value |-> v, bytes |-> << >>,
                 LastKnownPosition |-> 0, minigameID |-> 0] :
                  b \in ClientBuilds, v \in 0..MaxWireValue}
  /\ codec = NoCodec

NextWire == WireEncode \/ WireUpdateAny \/ WireTrackedActivity

SpecWire == InitWire /\ [][NextWire]_vars

\* a client encodes a buffer in one of the three encodings and the read
\* loop of its session receives the frame
InitCodec ==
  /\ Lobbies = EmptyMap
  /\ lobbies = << >>
  /\ nextLobbyID = FirstNextLobbyID
  /\ acceptsNewLobbies = TRUE
  /\ CloseQueue = << >>
  /\ queueClosed = FALSE
  /\ drainerDone = FALSE
  /\ drainer = Receiving
  /\ crashed = FALSE
  /\ creator = [p \in Creators |->
                 [pc |-> "idle", colonyID |-> 0, ownerID |-> 0,
                  encoding |-> MESSAGE_ENCODING_BINARY,
                  lobby |-> 0, result |-> 0]]
  /\ shut = [pc |-> "idle", present |-> EmptyMap, visited |-> {}, lobby |-> 0]
  /\ sess = [s \in Sessions |-> NewSession]
  /\ conn = [s \in Sessions |-> "none"]
  /\ sent = [s \in Sessions |-> {}]
  /\ State = [s \in Sessions |-> 0]
  /\ registryBuild = NoBuild
  /\ wire = NoWire
  /\ codec \in {[pc |-> "new", encoding |-> e, buffer |-> b,
                  frame |-> [dataType |-> BinaryMessage, data |-> << >>],
                  msg |-> << >>, decodeErr |-> FALSE] :
                   e \in {MESSAGE_ENCODING_BINARY, MESSAGE_ENCODING_BASE16,
                          MESSAGE_ENCODING_BASE64},
                   b \in BuffersOfRuns}

NextCodec == CodecEncode \/ CodecReceive

SpecCodec == InitCodec /\ [][NextCodec]_vars

SpecRegistry == InitRegistry /\ [][NextRegistry]_vars

CreateLobby ==
  \/ \E p \in Creators, o \in OwnerIDs, c \in ColonyIDs,
        e \in UserSetEncodings : CreateCheck(p, o, c, e)
  \/ \E p \in Creators : CreateRange(p)
  \/ \E p \in Creators : CreateAlloc(p)
  \/ \E p \in Creators : CreateStore(p)

\* the steps of ShutdownLobbyManager once it has been called
shutdownSteps ==
  \/ ShutdownRange
  \/ ShutdownVisit
  \/ ShutdownCloseBroadcast
  \/ ShutdownCloseStore
  \/ ShutdownCloseSend
  \/ ShutdownCloseQueue

ShutdownLobbyManager == ShutdownBegin \/ shutdownSteps

\* the steps of the handler of request s after its first: the rest of
\* IsJoinPossible, the upgrade (which ends within the handshake timeout),
\* JoinLobby and the answer to its error
joinSteps(s) ==
  \/ IsJoinPossibleLock(s)
  \/ IsJoinPossibleClosing(s)
  \/ IsJoinPossibleClients(s)
  \/ \E ok \in BOOLEAN : Upgrade(s, ok)
  \/ JoinChecks(s)
  \/ \E err \in BOOLEAN : JoinBroadcast(s, err)
  \/ JoinStore(s)
  \/ JoinErrReply(s)
  \/ JoinErrClose(s)

JoinLobby ==
  \/ \E s \in Sessions, l \in RequestedLobbyIDs, c \in ClientIDs,
        k \in ConnectColonyIDs, o \in ConnectOwnerIDs :
       IsJoinPossible(s, Decimal(l), Decimal(c), k, o)
  \/ \E s \in Sessions : joinSteps(s)

\* well-formed frames whose handlers return nil
readFrames ==
  \/ \E s \in Sessions, m \in WellFormedFrames : ReadMessage(s, m)
  \/ \E s \in Sessions : Process(s)
  \/ \E s \in Sessions : UnknownSenderReply(s)
  \/ \E s \in Sessions : UnauthorizedReply(s)
  \/ \E s \in Sessions : Handler(s, "nil")
  \/ \E s \in Sessions : UpdateState(s)

\* DIFFICULTY_SELECT_FOR_MINIGAME frames whose handlers return nil
readActivityFrames ==
  \/ \E s \in Sessions, m \in ActivityFrames : ReadMessage(s, m)
  \/ \E s \in Sessions : Process(s)
  \/ \E s \in Sessions : UnknownSenderReply(s)
  \/ \E s \in Sessions : UnauthorizedReply(s)
  \/ \E s \in Sessions : Handler(s, "nil")
  \/ \E s \in Sessions : updateTrackedActivity(s)

\* the text frames of the runs, whole PLAYER_MOVE frames and frames that
\* cannot be decoded: their header names the owner
TextFrames ==
  {m \in UndecodableFrames \cup DecodableFrames : m.senderID = 7}

\* text frames, any result of the handler
readTextFrames ==
  \/ \E s \in Sessions, m \in TextFrames : ReadMessage(s, m)
  \/ \E s \in Sessions : DecodeErrReply(s)
  \/ \E s \in Sessions : Process(s)
  \/ \E s \in Sessions : UnknownSenderReply(s)
  \/ \E s \in Sessions, r \in HandlerResults : Handler(s, r)
  \/ \E s \in Sessions : HandlingErrReply(s)
  \/ \E s \in Sessions : UpdateState(s)
  \/ \E s \in Sessions : ProcessingErrReply(s)

\* any frame, any result of the handler
readAnyFrames ==
  \/ \E s \in Sessions, m \in Frames : ReadMessage(s, m)
  \/ \E s \in Sessions : Process(s)
  \/ \E s \in Sessions : UnknownSenderReply(s)
  \/ \E s \in Sessions : UnauthorizedReply(s)
  \/ \E s \in Sessions, r \in HandlerResults : Handler(s, r)
  \/ \E s \in Sessions : HandlingErrReply(s)
  \/ \E s \in Sessions : UpdateState(s)
  \/ \E s \in Sessions : ProcessingErrReply(s)

disconnects ==
  \/ \E s \in Sessions : ReadError(s)
  \/ \E s \in Sessions : PeerDrop(s)
  \/ \E s \in Sessions : RemoveClient(s)
  \/ \E s \in Sessions : OwnerCloseBroadcast(s)
  \/ \E s \in Sessions : OwnerCloseStore(s)
  \/ \E s \in Sessions : OwnerCloseSend(s)

closeFrames == \E s \in Sessions : PeerClose(s)

\* the manager alone: lobbies are created, the manager is shut down, the
\* close queue is drained
NextManager ==
  CreateLobby \/ ShutdownLobbyManager \/ drainLobbies \/ DrainerExit

SpecManager == Init /\ [][NextManager]_vars

\* the state after one CreateLobby(7, 42) has returned
InitLobby ==
  /\ Lobbies = MapPut(EmptyMap, AtomicAdd(FirstNextLobbyID), 1)
  /\ lobbies = <<NewLobby(AtomicAdd(FirstNextLobbyID), 7, 42,
                           EncodingToUse(MESSAGE_ENCODING_BINARY))>>
  /\ nextLobbyID = AtomicAdd(FirstNextLobbyID)
  /\ acceptsNewLobbies = TRUE
  /\ CloseQueue = << >>
  /\ queueClosed = FALSE
  /\ drainerDone = FALSE
  /\ drainer = Receiving
  /\ crashed = FALSE
  /\ creator = [p \in Creators |->
                 IF p = 1
                 THEN [pc |-> "returned", colonyID |-> 42, ownerID |-> 7,
                       encoding |-> MESSAGE_ENCODING_BINARY,
                       lobby |-> 1, result |-> AtomicAdd(FirstNextLobbyID)]
                 ELSE [pc |-> "idle", colonyID |-> 0, ownerID |-> 0,
                       encoding |-> MESSAGE_ENCODING_BINARY,
                       lobby |-> 0, result |-> 0]]
  /\ shut = [pc |-> "idle", present |-> EmptyMap, visited |-> {}, lobby |-> 0]
  /\ sess = [s \in Sessions |-> NewSession]
  /\ conn = [s \in Sessions |-> "none"]
  /\ sent = [s \in Sessions |-> {}]
  /\ State = [s \in Sessions |-> 0]
  /\ registryBuild = NoBuild
  /\ wire = NoWire
  /\ codec = NoCodec

\* one lobby and its sessions: joins, frames, disconnects, the drainer
NextLobby == JoinLobby \/ readFrames \/ disconnects \/ closeFrames \/ Drain

SpecLobby == InitLobby /\ [][NextLobby]_vars

\* the steps of the goroutine of session s that need nothing from the
\* remote end: the Go scheduler runs a goroutine that can take a step
disconnectSteps(s) ==
  \/ ReadError(s)
  \/ RemoveClient(s)
  \/ OwnerCloseBroadcast(s)
  \/ OwnerCloseStore(s)
  \/ OwnerCloseSend(s)

\* one lobby, its sessions and the drainer; every goroutine that can take
\* a step is scheduled, the remote ends do what they like
NextDisconnect == JoinLobby \/ disconnects \/ closeFrames \/ Drain

SpecDisconnect ==
  /\ InitLobby
  /\ [][NextDisconnect]_vars
  /\ WF_vars(Drain)
  /\ \A s \in Sessions : WF_vars(joinSteps(s)) /\ WF_vars(disconnectSteps(s))

\* one lobby and its sessions with frames of every kind
NextFrames == JoinLobby \/ readAnyFrames \/ disconnects \/ Drain

SpecFrames == InitLobby /\ [][NextFrames]_vars

\* create requests of the owner for the colony that has the lobby
CreateLobbyAgain ==
  \/ \E p \in Creators, o \in ConnectOwnerIDs, c \in ConnectColonyIDs :
       CreateCheck(p, o, c, MESSAGE_ENCODING_BINARY)
  \/ \E p \in Creators : CreateRange(p)
  \/ \E p \in Creators : CreateAlloc(p)
  \/ \E p \in Creators : CreateStore(p)

\* one lobby whose sessions come and go while its colony is asked for
\* again
NextRecreate == CreateLobbyAgain \/ JoinLobby \/ disconnects \/ Drain

SpecRecreate == InitLobby /\ [][NextRecreate]_vars

\* one lobby and its sessions with text frames
NextText == JoinLobby \/ readTextFrames \/ disconnects \/ Drain

SpecText == InitLobby /\ [][NextText]_vars

\* one lobby and its sessions with the frames that drive the tracker
NextActivity == JoinLobby \/ readActivityFrames \/ disconnects \/ Drain

SpecActivity == InitLobby /\ [][NextActivity]_vars

\* /connect requests whose clientID goes through getAsInt and uint32()
connects ==
  \E s \in Sessions, l \in RequestedLobbyIDs, q \in ConnectClientIDs,
     k \in DesyncColonyIDs, o \in DesyncOwnerIDs :
    IsJoinPossible(s, Decimal(l), q, k, o)

\* /connect requests whose lobbyID and clientID lie outside the uint32
\* range or are missing
queries ==
  \E s \in Sessions, l \in QueryLobbyIDs, q \in QueryClientIDs,
     k \in ConnectColonyIDs, o \in ConnectOwnerIDs :
    IsJoinPossible(s, l, q, k, o)

\* one lobby and the /connect requests with such parameters
NextQuery ==
  queries \/ (\E s \in Sessions : joinSteps(s)) \/ disconnects \/ Drain

SpecQuery == InitLobby /\ [][NextQuery]_vars

\* one lobby and the /connect requests with the unusual clientIDs
NextConnect ==
  connects \/ (\E s \in Sessions : joinSteps(s)) \/ disconnects \/ Drain

SpecConnect == InitLobby /\ [][NextConnect]_vars

\* one lobby, its sessions and the shutdown of the manager, scheduled in
\* the same way
NextShutdown ==
  JoinLobby \/ disconnects \/ ShutdownLobbyManager \/ Drain \/ DrainerExit

SpecShutdown ==
  /\ InitLobby
  /\ [][NextShutdown]_vars
  /\ WF_vars(Drain)
  /\ WF_vars(DrainerExit)
  /\ WF_vars(shutdownSteps)
  /\ \A s \in Sessions : WF_vars(joinSteps(s)) /\ WF_vars(disconnectSteps(s))

Next ==
  \/ CreateLobby
  \/ ShutdownLobbyManager
  \/ Drain
  \/ DrainerExit
  \/ JoinLobby
  \/ readFrames
  \/ disconnects
  \/ closeFrames

Spec == Init /\ [][Next]_vars

\* C1: a frame that the read loop of session s accepts (the step of line
\* 158-173 finds the sender and its permission, the handler is next)
\* carries the ID of the client of session s in its header
C1_AcceptedFrameNamesItsSession ==
  [][ \A s \in Sessions :
        (sess[s].pc = "process" /\ sess'[s].pc = "handler")
          => sess[s].msg.senderID = sess[s].clientID ]_vars

\* C2: a frame whose specification does not permit the origin type of the
\* client of the session it arrives on does not reach its handler, and is
\* answered with DEBUG 401 on that session in a step that changes no
\* disclosed state and writes to no other transport; stated for the
\* frames of a client that is in the Clients map whose header names a
\* client of the lobby
C2_UnauthorizedFrameAnsweredToSender ==
  [][ \A s \in Sessions :
        LET m == sess[s].msg
            lobby == lobbies[sess[s].lobby]
            own == /\ sess[s].clientID \in DOMAIN lobby.Clients
                   /\ lobby.Clients[sess[s].clientID] = s
                   /\ ~m.spec.SendPermissions[sess[s].Type]
        IN /\ ( /\ sess[s].pc = "process"
                /\ sess'[s] # sess[s]
                /\ own
                /\ ExtractClientIDAndMessageID(m) = ""
                /\ m.senderID \in DOMAIN lobby.Clients )
              => sess'[s].pc = "unauthorized"
           /\ (sess[s].pc = "unauthorized" /\ sess'[s] # sess[s] /\ own)
              => /\ State' = State
                 /\ \A t \in Sessions \ {s} : sent'[t] = sent[t]
                 /\ conn[s] = "open" => DEBUG(401) \in sent'[s] ]_vars

\* C3: once the Closing flag of a lobby is set, no client is added to its
\* Clients map
C3_NoJoinOnceClosing ==
  [][ \A o \in 1..Len(lobbies) :
        lobbies[o].Closing
          => DOMAIN lobbies'[o].Clients \subseteq DOMAIN lobbies[o].Clients
    ]_vars

\* C5: after the session of the owner has ended, the lobby is eventually
\* unregistered with the transport of every client still in it closed
C5_OwnerGoneLobbyRemoved ==
  (\E s \in Sessions : /\ sess[s].Type = ORIGIN_TYPE_OWNER
                        /\ sess[s].pc = "onDisconnect")
    ~> ( /\ lobbies[1].ID \notin DOMAIN Lobbies
         /\ \A t \in RangeOf(lobbies[1].Clients) : conn[t] = "closed" )

\* C6: when shutdown(), run by the drainer, closes the transport of a guest
\* of a lobby the owner has left, LOBBY_CLOSING has been written to that
\* transport before
C6_LobbyClosingBeforeTransportClosed ==
  [][ \A t \in Sessions :
        ( /\ drainer.pc = "closing"
          /\ drainer' # drainer
          /\ sess[t].Type = ORIGIN_TYPE_GUEST
          /\ conn[t] = "open"
          /\ conn'[t] = "closed" )
        => LOBBY_CLOSING \in sent[t] ]_vars

\* C7: after ShutdownLobbyManager has been called, the lobby that was
\* registered is eventually unregistered with every transport of its
\* clients closed, and the drainer has returned
C7_ShutdownUnregistersAndDrainerEnds ==
  (shut.pc # "idle")
    ~> ( /\ lobbies[1].ID \notin DOMAIN Lobbies
         /\ \A t \in RangeOf(lobbies[1].Clients) : conn[t] = "closed"
         /\ drainerDone )

\* C4: at any time at most one non-closing lobby is registered per ColonyID
\* (two CreateLobby calls for one colony leave a single lobby in the map)
C4_OneLobbyPerColony ==
  \A a, b \in DOMAIN Lobbies :
    ( /\ lobbies[Lobbies[a]].ColonyID = lobbies[Lobbies[b]].ColonyID
      /\ ~lobbies[Lobbies[a]].Closing
      /\ ~lobbies[Lobbies[b]].Closing ) => a = b

\* C8: ShutdownLobbyManager runs close() on a lobby only after it has
\* reached the lobby in its Range (and broadcast SERVER_CLOSING to it), and
\* the step that closes the close queue finds close() done on every
\* registered lobby
C8_QueueClosedAfterEveryClose ==
  [][ /\ (shut'.pc \in {"closeBroadcast", "closeStore", "closeSend"}
            => lobbies'[shut'.lobby].ID \in shut'.visited)
      /\ ((queueClosed' /\ ~queueClosed)
            => \A id \in DOMAIN Lobbies : lobbies[Lobbies[id]].Closing) ]_vars

\* C9: once acceptsNewLobbies is false, no lobby is added to the manager's
\* map
C9_NoLobbyAfterShutdownBegan ==
  [][ ~acceptsNewLobbies => (DOMAIN Lobbies') \subseteq (DOMAIN Lobbies) ]_vars

\* C10: lobby IDs are strictly increasing in the order of allocation, so no
\* ID is given to two lobbies
C10_LobbyIDsStrictlyIncreasing ==
  \A i, j \in 1..Len(lobbies) : i < j => lobbies[i].ID < lobbies[j].ID

\* C11: the first lobby a fresh LobbyManager creates gets LobbyID 1
C11_FirstLobbyIDIsOne ==
  Len(lobbies) >= 1 => lobbies[1].ID = 1

\* C12: no client with the ID SERVER_ID is ever in the Clients map of a
\* lobby
C12_ServerIDNeverAClient ==
  \A o \in 1..Len(lobbies) : SERVER_ID \notin DOMAIN lobbies[o].Clients

\* C13: the transport of a session that joins as client J is never sent
\* PLAYER_JOINED(J)
C13_JoinerNotSentOwnJoin ==
  \A s \in Sessions : PLAYER_JOINED(sess[s].clientID) \notin sent[s]

\* C14: when JoinLobby inserts joiner J into the Clients map, every other
\* client in the map (with a transport the server can write to) has been
\* sent PLAYER_JOINED(J)
C14_IncumbentsSentJoinBeforeInsert ==
  [][ \A s \in Sessions :
        (sess[s].pc = "joinStore" /\ sess'[s].pc = "reading")
        => \A t \in RangeOf(lobbies[sess[s].lobby].Clients) \ {s} :
             (conn[t] = "open" /\ sess[t].clientID # sess[s].clientID)
               => PLAYER_JOINED(sess[s].clientID) \in sent[t]
    ]_vars

\* C15: a client ID never has two sessions with a running read loop in one
\* lobby
C15_OneSessionPerClientID ==
  LET inReadLoop == {"reading", "decodeErr", "process", "unknownSender",
                     "unauthorized", "handler", "handlingErr", "updateAny",
                     "changeActivityID", "changeDifficultyID",
                     "processingErr"}
  IN \A s, t \in Sessions :
       ( /\ s # t
         /\ sess[s].pc \in inReadLoop
         /\ sess[t].pc \in inReadLoop
         /\ sess[s].lobby = sess[t].lobby )
       => sess[s].clientID # sess[t].clientID

\* C16: in the RemoveClient of session s, the step of Clients.Delete
\* leaves the client ID of s out of the Clients map, the step of
\* Conn.Close leaves the transport of s closed, and the step of the
\* broadcast writes PLAYER_LEFT to the clients that are in the map and to
\* no other transport
C16_DepartureRemovesClosesNotifies ==
  [][ \A s \in Sessions :
        LET o == sess[s].lobby
            id == sess[s].clientID
        IN /\ (sess[s].pc = "removeDelete" /\ sess'[s] # sess[s])
              => id \notin DOMAIN lobbies'[o].Clients
           /\ (sess[s].pc = "removeClose" /\ sess'[s] # sess[s])
              => conn'[s] = "closed"
           /\ (sess[s].pc = "removeBroadcast" /\ sess'[s] # sess[s])
              => /\ sent'[s] = sent[s]
                 /\ \A t \in Sessions \ {s} :
                      IF t \in RangeOf(lobbies'[o].Clients)
                           /\ conn[t] = "open"
                      THEN PLAYER_LEFT(id) \in sent'[t]
                      ELSE sent'[t] = sent[t] ]_vars

\* C17: a step of the read loop of session s on a frame (the answer to a
\* decoding error, to a parsing error, to a sender without the permission,
\* to an error of the handler, to a processing error) writes no DEBUG to
\* the transport of another session; stated for the frames of a client
\* that is the one registered under its ID
C17_DebugOnlyToOriginatingSession ==
  [][ \A s \in Sessions :
        ( /\ sess[s].pc \in {"decodeErr", "process", "unknownSender",
                              "unauthorized", "handlingErr",
                              "processingErr"}
          /\ sess'[s] # sess[s]
          /\ sess[s].clientID \in DOMAIN lobbies[sess[s].lobby].Clients
          /\ lobbies[sess[s].lobby].Clients[sess[s].clientID] = s )
        => \A t \in Sessions \ {s} :
             \A x \in sent'[t] \ sent[t] : x.id # "DEBUG" ]_vars

\* C18: a frame that fails the parsing of header and specification is
\* answered with DEBUG 400 on the session it arrived on, changes no state
\* of the lobby or of a client, is written to no other transport, and the
\* read loop goes on; if the transport of the session cannot be written
\* to, nothing is written and the read loop ends
C18_ParseFailureAnswered400 ==
  [][ \A s \in Sessions :
        ( /\ sess[s].pc = "process"
          /\ sess'[s] # sess[s]
          /\ ExtractClientIDAndMessageID(sess[s].msg) # "" )
        => /\ State' = State
           /\ lobbies' = lobbies
           /\ \A t \in Sessions \ {s} : sent'[t] = sent[t]
           /\ IF conn[s] = "open"
              THEN DEBUG(400) \in sent'[s] /\ sess'[s].pc = "reading"
              ELSE sent' = sent /\ sess'[s].pc = "onDisconnect" ]_vars

\* C18 witness: a session was answered DEBUG 400, its read loop went on,
\* and the next frame, whose header names another client, fails the
\* parsing too
C18_Witness ==
  \E s \in Sessions :
    /\ DEBUG(400) \in sent[s]
    /\ sess[s].pc = "process"
    /\ ExtractClientIDAndMessageID(sess[s].msg) = "PayloadTooShort"
    /\ sess[s].msg.senderID # sess[s].clientID

\* C19: a well-formed frame whose header names no client of the lobby does
\* not reach its handler, is answered with DEBUG 401 on the session it
\* arrived on, and the read loop goes on
C19_UnknownSenderAnswered401 ==
  [][ \A s \in Sessions :
        /\ ( /\ sess[s].pc = "process"
             /\ sess'[s] # sess[s]
             /\ ExtractClientIDAndMessageID(sess[s].msg) = ""
             /\ sess[s].msg.senderID
                  \notin DOMAIN lobbies[sess[s].lobby].Clients )
           => sess'[s].pc = "unknownSender"
        /\ ( /\ sess[s].pc = "unknownSender"
             /\ sess'[s] # sess[s]
             /\ conn[s] = "open" )
           => DEBUG(401) \in sent'[s] /\ sess'[s].pc = "reading" ]_vars

\* C20: the step that runs the handler of a frame writes to no transport
\* (after nil and after an UnresponsiveClientsError the processing goes
\* on, no DEBUG is sent); the error of a handler is answered with DEBUG
\* 500 on the session the frame arrived on and on no other transport,
\* with no disclosed state changed, and the read loop ends only if that
\* transport cannot be written to; stated for the frames of a client that
\* is the one registered under its ID
C20_HandlerErrorAnswered500 ==
  [][ \A s \in Sessions :
        LET lobby == lobbies[sess[s].lobby]
            own == /\ sess'[s] # sess[s]
                   /\ sess[s].clientID \in DOMAIN lobby.Clients
                   /\ lobby.Clients[sess[s].clientID] = s
        IN /\ (sess[s].pc = "handler" /\ own)
              => /\ sent' = sent
                 /\ State' = State
                 /\ sess'[s].pc \in {"handlingErr", "updateAny",
                                     "changeActivityID", "reading"}
           /\ (sess[s].pc = "handlingErr" /\ own)
              => /\ State' = State
                 /\ \A t \in Sessions \ {s} : sent'[t] = sent[t]
                 /\ sess'[s].pc = "processingErr"
                 /\ conn[s] = "open" => DEBUG(500) \in sent'[s]
           /\ (sess[s].pc = "processingErr" /\ own)
              => /\ State' = State
                 /\ \A t \in Sessions \ {s} : sent'[t] = sent[t]
                 /\ IF conn[s] = "open"
                    THEN sess'[s].pc = "reading"
                    ELSE sess'[s].pc = "onDisconnect" ]_vars

\* C21: when the Range of CreateLobby finds a registered lobby of the
\* colony of the request, the call returns the ID of such a lobby, no ID is
\* allocated, no lobby is inserted and no field of any lobby (owner and
\* encoding among them) changes
C21_CreateForKnownColonyReturnsIt ==
  [][ \A p \in Creators :
        LET same == {id \in DOMAIN Lobbies :
                       lobbies[Lobbies[id]].ColonyID = creator[p].colonyID}
        IN ( /\ creator[p].pc = "range"
             /\ creator'[p] # creator[p]
             /\ same # {} )
           => /\ creator'[p].pc = "returned"
              /\ creator'[p].result \in same
              /\ creator'[p].lobby = Lobbies[creator'[p].result]
              /\ nextLobbyID' = nextLobbyID
              /\ Lobbies' = Lobbies
              /\ lobbies' = lobbies ]_vars

\* C21 witness: a request with another owner and another encoding got the
\* lobby the colony already had, and that is the only lobby ever made
C21_Witness ==
  \E p \in Creators :
    /\ creator[p].pc = "returned"
    /\ Len(lobbies) = 1
    /\ creator[p].result \in DOMAIN Lobbies
    /\ lobbies[creator[p].lobby].OwnerID # creator[p].ownerID
    /\ lobbies[creator[p].lobby].Encoding # EncodingToUse(creator[p].encoding)
    /\ nextLobbyID = AtomicAdd(FirstNextLobbyID)

\* C22: a /connect request for a lobby ID that is not registered gets
\* JoinErrorNotFound from IsJoinPossible, starts exactly one CloseColony
\* call with the colonyID and the ownerID of the request, and is answered
\* 404 with no transport opened
C22_UnknownLobbyClosesColony ==
  [][ \A s \in Sessions :
        ( /\ sess[s].pc = "idle"
          /\ sess'[s].pc # "idle"
          /\ sess'[s].lobbyID \notin DOMAIN Lobbies )
        => /\ sess'[s].pc = "rejected"
           /\ sess'[s].err = {JoinErrorNotFound}
           /\ sess'[s].closeColony =
                <<[colonyID |-> sess'[s].colonyID,
                   ownerID |-> sess'[s].ownerID]>>
           /\ sess'[s].status = 404
           /\ conn'[s] = "none" ]_vars

\* C22 witness: a request for a lobby ID that was never allocated, with a
\* colony and an owner the server has no lobby for, was answered 404
C22_Witness ==
  \E s \in Sessions :
    /\ sess[s].pc = "rejected"
    /\ sess[s].lobbyID > nextLobbyID
    /\ sess[s].colonyID = 43
    /\ sess[s].ownerID = 9
    /\ Len(sess[s].closeColony) = 1
    /\ sess[s].status = 404
    /\ conn[s] = "none"

\* C23: the drainer's UnregisterLobby removes a registered lobby from the
\* map and goes on to its shutdown(); for a lobby that is no longer
\* registered it changes nothing and shutdown() is not called; no lobby
\* is ever shut down twice, however many times it was placed on the close
\* queue
C23_UnregisteredAndShutDownOnce ==
  [][ /\ \A o \in 1..Len(lobbies') : lobbies'[o].shutdowns <= 1
      /\ (drainer.pc = "unregister" /\ drainer' # drainer)
         => LET id == lobbies[drainer.lobby].ID
            IN IF id \in DOMAIN Lobbies
               THEN /\ id \notin DOMAIN Lobbies'
                    /\ drainer'.pc = "shutdown"
                    /\ drainer'.lobby = Lobbies[id]
                    /\ lobbies'[Lobbies[id]].shutdowns = 0
               ELSE /\ Lobbies' = Lobbies
                    /\ lobbies' = lobbies
                    /\ conn' = conn
                    /\ drainer'.pc = "receive"
      /\ (drainer.pc = "shutdown" /\ drainer' # drainer)
         => /\ lobbies'[drainer.lobby].shutdowns = 1
            /\ lobbies[drainer.lobby].ID \notin DOMAIN Lobbies ]_vars

\* C23 witness: the lobby was placed on the close queue by the shutdown of
\* the manager and by the disconnect of its owner, the drainer has taken
\* both from the queue and is back at its receive, and the lobby is
\* unregistered and was shut down once
C23_Witness ==
  /\ ~crashed
  /\ CloseQueue = << >>
  /\ drainer.pc = "receive"
  /\ shut.pc \in {"range", "done"}
  /\ shut.visited = {lobbies[1].ID}
  /\ \E s \in Sessions :
       sess[s].Type = ORIGIN_TYPE_OWNER /\ sess[s].pc = "done"
  /\ Lobbies = EmptyMap
  /\ lobbies[1].shutdowns = 1

\* C24: once close() has set the Closing flag of the lobby, the lobby ends
\* up unregistered and shut down exactly once with the process alive,
\* whether close() is called once or again by another caller
C24_CloseTwiceAsOnce ==
  lobbies[1].Closing
    ~> ( /\ ~crashed
         /\ lobbies[1].ID \notin DOMAIN Lobbies
         /\ lobbies[1].shutdowns = 1 )

\* the sum of the sizes of the elements of a structure
RECURSIVE SumOfByteSizes(_)
SumOfByteSizes(shortDescription) ==
  IF shortDescription = << >> THEN 0
  ELSE sizeOfSerializedKind(Head(shortDescription))
         + SumOfByteSizes(Tail(shortDescription))

\* C27: the size ComputeStructure returns for a structure it accepts is
\* the 8 bytes of the header plus the sum of the byte sizes of the
\* fixed-size elements (8 for the empty structure, 23 for ASTEROID_SPAWN)
C27_MinSizeIsHeaderPlusElements ==
  registryBuild.pc = "returned"
    => /\ registryBuild.minimumTotalSize =
            MESSAGE_HEADER_SIZE
              + SumOfByteSizes(registryBuild.shortDescription)
       /\ registryBuild.shortDescription = << >>
            => registryBuild.minimumTotalSize = 8
       /\ registryBuild.shortDescription = ASTEROID_SPAWN_STRUCTURE
            => registryBuild.minimumTotalSize = 23

\* C28: ComputeStructure returns for a structure exactly when all its
\* kinds are supported, at most one of its elements is a string and no
\* element before the last is; for every other structure it panics
C28_AcceptedIffWellFormed ==
  LET d == registryBuild.shortDescription
      strings == {i \in 1..Len(d) : d[i] = "String"}
      supported == {"Bool", "Int", "Int8", "Int16", "Int32", "Int64",
                    "Uint", "Uint8", "Uint16", "Uint32", "Uint64",
                    "Uintptr", "Float32", "Float64", "Complex64",
                    "Complex128", "String"}
      wellFormed == /\ \A i \in 1..Len(d) : d[i] \in supported
                    /\ Cardinality(strings) <= 1
                    /\ strings \subseteq {Len(d)}
  IN registryBuild.pc # "none" /\ registryBuild.pc # "called"
       => /\ wellFormed => registryBuild.pc = "returned"
          /\ ~wellFormed => registryBuild.pc = "panicked"

\* C28 witness: a structure of supported kinds with two strings, the
\* second in the last position, was rejected
C28_Witness ==
  /\ registryBuild.pc = "panicked"
  /\ registryBuild.shortDescription = <<"Uint32", "String", "String">>

\* C29: the four bytes NewClient writes for a uint32 are read back as the
\* same uint32 by UpdateAny and by updateTrackedActivity
C29_OneByteOrder ==
  /\ wire.pc \in {"updated", "tracked"}
       => wire.LastKnownPosition = wire.value
  /\ wire.pc = "tracked" => wire.minigameID = wire.value

\* C30: after an accepted PLAYER_MOVE whose payload carries the location
\* ID L, the step of UpdateAny leaves L in the LastKnownPosition of the
\* client the header names
C30_PlayerMoveStoresLocation ==
  [][ \A s \in Sessions :
        ( /\ sess[s].pc = "updateAny"
          /\ sess'[s].pc = "reading"
          /\ sess[s].msg.spec.ID = PLAYER_MOVE_EVENT.ID )
        => State'[sess[s].loaded] = sess[s].msg.elements[2] ]_vars

\* C25: the activity tracker of a lobby changes only in a step of the
\* read loop of the session of the owner; no frame that arrived on the
\* session of a guest changes it
C25_TrackerMovedByOwnerSessionOnly ==
  [][ \A o \in DOMAIN lobbies \cap DOMAIN lobbies' :
        lobbies'[o].activityTracker # lobbies[o].activityTracker
        => \E s \in Sessions :
             /\ sess[s].pc \in {"changeActivityID", "changeDifficultyID"}
             /\ sess'[s] # sess[s]
             /\ sess[s].lobby = o
             /\ sess[s].Type = ORIGIN_TYPE_OWNER ]_vars

\* C26: when the processing of a DIFFICULTY_SELECT_FOR_MINIGAME of the
\* owner, sent on the owner's session, that carries the minigame ID m and
\* the difficulty ID d ends (ChangeDifficultyID has returned), the tracker
\* holds m and d and is in the phase Selecting
C26_DifficultySelectStoresIDs ==
  [][ \A s \in Sessions :
        LET m == sess[s].msg
        IN ( /\ sess[s].pc = "changeDifficultyID"
             /\ sess'[s].pc = "reading"
             /\ sess[s].Type = ORIGIN_TYPE_OWNER
             /\ m.senderID = sess[s].clientID
             /\ sess[s].loaded = s )
           => lobbies'[sess[s].lobby].activityTracker =
                [currentActivityID |-> m.elements[1],
                 currentDifficultyID |-> m.elements[2],
                 phase |-> "Selecting"] ]_vars

\* C38: in a structure ComputeStructure accepts, an element has ByteSize 0
\* exactly when its kind is variable-length, and every fixed-size element
\* moves the offset of the element after it
C38_ZeroByteSizeIffVariable ==
  registryBuild.pc = "returned"
    => LET c == registryBuild.computedStructure
       IN /\ \A i \in 1..Len(c) :
               c[i].ByteSize = 0 <=> isKindOfVariableSize(c[i].Kind)
          /\ \A i \in 1..(Len(c) - 1) :
               ~isKindOfVariableSize(c[i].Kind)
                 => c[i + 1].Offset > c[i].Offset

\* C31: what the read loop hands to header parsing for a frame that a
\* client encoded with one of the three encodings is the buffer the client
\* encoded, and no decoding error is reported
C31_DecodeOfEncodeIsIdentity ==
  codec.pc = "received"
    => /\ codec.msg = codec.buffer
       /\ ~codec.decodeErr

\* C36: the processing of one inbound frame writes at most one DEBUG
\* event, whether the frame fails hex decoding or its handler fails: a
\* frame that has been answered with a DEBUG (line 132 wrote DEBUG 400 for
\* the decoding error, or line 196 wrote DEBUG 500 for the error of the
\* handler) gets no other DEBUG in the steps that follow
C36_OneDebugPerFrame ==
  [][ \A s \in Sessions :
        ( /\ sess'[s] # sess[s]
          /\ \/ /\ sess[s].pc \in {"process", "unknownSender", "handler",
                                     "handlingErr", "updateAny"}
                /\ sess[s].msg.decodeErr
             \/ /\ sess[s].pc = "processingErr"
                /\ DEBUG(500) \in sent[sess[s].loaded] )
        => \A t \in Sessions :
             \A x \in sent'[t] \ sent[t] : x.id # "DEBUG" ]_vars

\* C40: when the disconnect routine of a session runs for a client that is
\* no longer in the Clients map of its lobby (the close handler has removed
\* it, the exit of the read loop runs the routine again), RemoveClient has
\* no effect: nothing is broadcast, no state of the lobby or of a transport
\* changes, and the server goes on
C40_RemoveGoneClientNoEffect ==
  [][ \A s \in Sessions :
        ( /\ sess[s].pc = "onDisconnect"
          /\ sess[s].clientID \notin DOMAIN lobbies[sess[s].lobby].Clients
          /\ (sess'[s] # sess[s] \/ crashed' # crashed) )
        => /\ ~crashed'
           /\ lobbies' = lobbies
           /\ sent' = sent
           /\ conn' = conn ]_vars

\* C33: the disconnect of a guest removes that guest and nothing else: in
\* every step of its disconnect routine the Closing flag of the lobby is
\* unchanged, the lobby is not put on the close queue, it stays
\* registered, and the transports of the other sessions stay as they are
C33_GuestDisconnectRemovesGuestOnly ==
  [][ \A s \in Sessions :
        ( /\ sess[s].pc \in {"onDisconnect", "removeDelete", "removeClose",
                             "removeBroadcast"}
          /\ sess[s].Type = ORIGIN_TYPE_GUEST
          /\ (sess'[s] # sess[s] \/ crashed' # crashed) )
        => /\ ~crashed'
           /\ lobbies'[sess[s].lobby].Closing = lobbies[sess[s].lobby].Closing
           /\ CloseQueue' = CloseQueue
           /\ Lobbies' = Lobbies
           /\ \A t \in Sessions \ {s} : conn'[t] = conn[t] ]_vars

\* C34: no lobby sends on the close queue after ShutdownLobbyManager has
\* closed it: when the disconnect routine of an owner reaches the send of
\* close(), the queue is not closed
C34_NoSendOnClosedQueue ==
  [][ \A s \in Sessions :
        ( /\ sess[s].pc = "closeSend"
          /\ (sess'[s] # sess[s] \/ crashed' # crashed) )
        => ~queueClosed ]_vars

\* C35: no client is stored in the Clients map of a lobby that has been
\* unregistered and shut down
C35_NoInsertAfterShutdown ==
  [][ \A s \in Sessions :
        (sess[s].pc = "joinStore" /\ sess'[s] # sess[s])
        => ~ ( /\ lobbies[sess[s].lobby].shutdowns > 0
               /\ lobbies[sess[s].lobby].ID \notin DOMAIN Lobbies ) ]_vars

\* C39: the lobby a CreateLobby call returns does not have its Closing
\* flag set
C39_CreateReturnsOpenLobby ==
  [][ \A p \in Creators :
        (creator[p].pc # "returned" /\ creator'[p].pc = "returned")
        => ~lobbies'[creator'[p].lobby].Closing ]_vars

\* C37: a /connect request whose lobbyID or clientID parameter is a
\* number outside the uint32 range (negative, or 2^32 and above) is
\* answered 400 and opens no transport
C37_OutOfRangeIDAnswered400 ==
  [][ \A s \in Sessions :
        LET outOfRange(value) == value # << >> /\ value[1] # 0
        IN ( /\ sess[s].pc = "idle"
             /\ sess'[s].pc # "idle"
             /\ \/ outOfRange(sess'[s].query.lobbyID)
                \/ outOfRange(sess'[s].query.clientID) )
           => /\ sess'[s].pc = "rejected"
              /\ sess'[s].status = 400
              /\ conn'[s] = conn[s] ]_vars

\* C32: the LastKnownPosition of a client and the activity tracker of a
\* lobby change only in the step of UpdateAny or of updateTrackedActivity
\* on a frame that was decoded without an error (the lookup, the
\* permission check and the handler lie before that step): a frame that
\* is answered with a DEBUG event changes neither
C32_OnlyAcceptedFramesUpdate ==
  [][ ( \/ State' # State
        \/ \E o \in DOMAIN lobbies \cap DOMAIN lobbies' :
             lobbies'[o].activityTracker # lobbies[o].activityTracker )
      => \E s \in Sessions :
           /\ sess[s].pc \in {"updateAny", "changeActivityID",
                               "changeDifficultyID"}
           /\ sess'[s].pc \in {"changeDifficultyID", "reading"}
           /\ ~sess[s].msg.decodeErr
           /\ \A t \in Sessions :
                \A x \in sent'[t] \ sent[t] : x.id # "DEBUG" ]_vars

\* C10 witness: a second lobby is registered after the first one has been
\* unregistered
C10_Witness ==
  /\ Len(lobbies) >= 2
  /\ lobbies[1].ID \notin DOMAIN Lobbies
  /\ lobbies[2].ID \in DOMAIN Lobbies
====
